---- MODULE Spec2Model ----
(***************************************************************************)
(* Model of the e-consul booking bot (muntyanw/consul_service).            *)
(*                                                                         *)
(*  - the work queue and the scheduling loop       src/manager.py          *)
(*  - the Free-Slot Registry                       src/core/free_slot_db.py*)
(*  - the identity helpers                         src/bot_io/yaml_loader.py*)
(*  - the attempt and the calendar search          src/core/slot_finder.py *)
(*  - the browser session                          src/core/gui_driver.py  *)
(*  - the token parser and the perception helpers  src/core/slot_finder.py,*)
(*                                                 src/core/gui_driver.py  *)
(*                                                                         *)
(* Python's None is the string "None" for a bool|None result and the empty *)
(* tuple for an optional date or integer (a present value v is <<v>>).     *)
(* Dates are day numbers; a date *string* ("dd.mm.yyyy") is the pair       *)
(* <<"str", d>> and a datetime.date object is the pair <<"date", d>>, so   *)
(* that a string and a date never compare equal, as in Python.             *)
(***************************************************************************)
EXTENDS Integers, Sequences, FiniteSets, TLC

VARIABLES
    dq,               \* UserQueue._dq: the deque of identities
    map,              \* UserQueue._map: alias -> identity
    qlock,            \* UserQueue._lock: "free", or "watcher" once update() blocks on it
    STOP_EVT,         \* server.tcp_server.STOP_EVT
    PAUSE_EVT,        \* server.tcp_server.PAUSE_EVT
    pc,               \* position of the scheduler thread in main()
    user,             \* main(): the identity popped for the current iteration
    booked,           \* main(): the value work() returned
    exc,              \* an exception travelling up from work() through chrome_session
    session,          \* aliases with a browser session open (chrome_session body entered)
    slots,            \* FreeSlotRegistry._slots: country -> consulate -> service -> dates
    deletedInFlight,  \* history of the in-flight alias: "no", "deleted" (remove(alias)
                      \* since the pop), "readded" (deleted, then appended again)
    reply,            \* the last status token the control server wrote
    cmd_line,         \* the last command line the control server handled
    snapshot,         \* the dict a caller got from FreeSlotRegistry.get_all
    att,              \* the frame of one attempt: the locals of SlotFinder's methods
    status_file,      \* the `status` mapping persisted in the identity's YAML file
    events,           \* the audit hooks called during the attempt, in order
    cw_queue,         \* ConfigWatcher._queue: the ChangeEvents not yet handed over
    cw_thread,        \* the ConfigWatcher thread: "running", "blocked", "stopped"
    occurred,         \* history: the file-system events on *.yaml files, in order
    delivered,        \* history: the events the callback was invoked with, in order
    users_dir,        \* the users directory YAMLLoader.load scans: file -> content
    loaded,           \* what YAMLLoader.load gave its caller
    entry_booked,     \* the `booked` lists of the status entries in the YAML file
    entry_comment,    \* the `comment` fields of the status entries in the YAML file
    booked_services,  \* user.booked_services of the identity being recorded
    ctx,              \* the frame of one `with prepare(...)` / `with chrome_session(...)`
    tmp_dirs,         \* the temporary profile directories that exist, by alias
    chrome_proc,      \* the browser process chrome_session launched
    gd                \* the frame of one call of a perception or parsing helper

vars == <<dq, map, qlock, STOP_EVT, PAUSE_EVT, pc, user, booked, exc, session,
          slots, deletedInFlight, reply, cmd_line, snapshot, att, status_file,
          events, cw_queue, cw_thread, occurred, delivered, users_dir, loaded,
          entry_booked, entry_comment, booked_services, ctx, tmp_dirs,
          chrome_proc, gd>>

\* the variables of the hot-reload thread
cwvars == <<cw_queue, cw_thread, occurred, delivered>>

\* the variables of the loader, the status record and the browser profile
iovars == <<users_dir, loaded, entry_booked, entry_comment, booked_services,
            ctx, tmp_dirs, chrome_proc>>

\* the scheduler's variables, untouched by the steps of an attempt
schedvars == <<dq, map, qlock, STOP_EVT, PAUSE_EVT, pc, user, booked, exc, session,
               deletedInFlight, reply, cmd_line, snapshot>>

None == "None"

\* the value of `user` when pop_left() returned None
NoUser == [alias |-> None]

\* the value of `att` while no attempt is modelled step by step
NoAttempt == [cpc |-> "idle"]

(***************************************************************************)
(* Small dictionary helpers (Python dict with a dynamic key set).          *)
(***************************************************************************)
EmptyDict == [x \in {} |-> {}]

DictPut(f, k, v) == [x \in (DOMAIN f) \cup {k} |-> IF x = k THEN v ELSE f[x]]

DictDel(f, k) == [x \in (DOMAIN f) \ {k} |-> f[x]]

DictSetDefault(f, k, v) == IF k \in DOMAIN f THEN f ELSE DictPut(f, k, v)

SeqToSet(s) == {s[i] : i \in 1..Len(s)}

SeqContains(s, x) == \E i \in 1..Len(s) : s[i] = x

RECURSIVE SeqFilterOut(_, _)
\* list.remove(x): the sequence without its first element equal to x
SeqFilterOut(s, x) ==
    IF s = <<>> THEN <<>>
    ELSE IF Head(s) = x THEN Tail(s)
    ELSE <<Head(s)>> \o SeqFilterOut(Tail(s), x)

(***************************************************************************)
(* Identities (UserConfig).  The universe of configurations the users      *)
(* directory can hold: one record per (file, revision).                    *)
(***************************************************************************)
Countries == {"PL"}
Consulates == {"K1", "K2"}
Services == {"S1", "S2"}

StatusKeys == Countries \X Consulates \X Services

NoStatus == [k \in StatusKeys |-> "absent"]

UserConfig(alias, rev, consulates, services, min_date, relative_days, status) ==
    [alias |-> alias, rev |-> rev, country |-> "PL",
     consulates |-> consulates, services |-> services,
     min_date |-> min_date, relative_days |-> relative_days,
     service_status |-> status, source_file |-> alias]

\* A.yaml: one pending combination, absolute floor date
UserA1 == UserConfig("A", 1, <<"K1">>, <<"S1">>, <<3>>, <<>>, NoStatus)
\* A.yaml after an edit: its only combination is booked
UserA2 == UserConfig("A", 2, <<"K1">>, <<"S1">>, <<3>>, <<>>,
                     [NoStatus EXCEPT ![<<"PL", "K1", "S1">>] = "booked"])
\* B.yaml: relative floor (days_from_now)
UserB == UserConfig("B", 1, <<"K2">>, <<"S1">>, <<>>, <<2>>, NoStatus)
\* C.yaml: every combination resolved, no floor configured
UserC == UserConfig("C", 1, <<"K1">>, <<"S1", "S2">>, <<>>, <<>>,
                    [NoStatus EXCEPT ![<<"PL", "K1", "S1">>] = "booked",
                                     ![<<"PL", "K1", "S2">>] = "unavailable"])
\* D.yaml: the consulate of B, an absolute floor date that is a Monday
UserD == UserConfig("D", 1, <<"K2">>, <<"S1">>, <<8>>, <<>>, NoStatus)

Users == {UserA1, UserA2, UserB, UserC}
Aliases == {u.alias : u \in Users}

\* YAMLLoader.has_pending_services
has_pending_services(u) ==
    \E i \in 1..Len(u.consulates) : \E j \in 1..Len(u.services) :
        u.service_status[<<u.country, u.consulates[i], u.services[j]>>]
            \notin {"booked", "unavailable"}

(***************************************************************************)
(* Free-Slot Registry.                                                     *)
(***************************************************************************)
\* An add that appends the date without looking for it in the list.
FreeSlotRegistry_add_always(s, country, cons, service, date) ==
    LET byCountry == DictSetDefault(s, country, EmptyDict)
        byCons == DictSetDefault(byCountry[country], cons, EmptyDict)
        bySrv == DictSetDefault(byCons[cons], service, <<>>)
    IN  DictPut(byCountry, country,
            DictPut(byCons, cons,
                DictPut(bySrv, service, Append(bySrv[service], date))))

\* FreeSlotRegistry.add
FreeSlotRegistry_add(s, country, cons, service, date) ==
    LET byCountry == DictSetDefault(s, country, EmptyDict)
        byCons == DictSetDefault(byCountry[country], cons, EmptyDict)
        bySrv == DictSetDefault(byCons[cons], service, <<>>)
        old == bySrv[service]
        new == IF SeqContains(old, date) THEN old ELSE Append(old, date)
    IN  DictPut(byCountry, country,
            DictPut(byCons, cons, DictPut(bySrv, service, new)))

\* A remove that leaves the service key behind when its list becomes empty.
FreeSlotRegistry_remove_keeping(s, country, cons, service, date) ==
    IF country \notin DOMAIN s THEN s
    ELSE IF cons \notin DOMAIN s[country] THEN s
    ELSE IF service \notin DOMAIN s[country][cons] THEN s
    ELSE IF ~SeqContains(s[country][cons][service], date) THEN s
    ELSE DictPut(s, country, DictPut(s[country], cons,
             DictPut(s[country][cons], service,
                     SeqFilterOut(s[country][cons][service], date))))

\* A remove that reaches the list with setdefault, creating what is missing.
FreeSlotRegistry_remove_creating(s, country, cons, service, date) ==
    LET byCountry == DictSetDefault(s, country, EmptyDict)
        byCons == DictSetDefault(byCountry[country], cons, EmptyDict)
        bySrv == DictSetDefault(byCons[cons], service, <<>>)
        rest == SeqFilterOut(bySrv[service], date)
    IN  DictPut(byCountry, country,
            DictPut(byCons, cons,
                IF SeqContains(bySrv[service], date) /\ rest = <<>>
                THEN DictDel(bySrv, service)
                ELSE DictPut(bySrv, service, rest)))

\* FreeSlotRegistry.remove: KeyError and ValueError are swallowed
FreeSlotRegistry_remove(s, country, cons, service, date) ==
    IF country \notin DOMAIN s THEN s
    ELSE IF cons \notin DOMAIN s[country] THEN s
    ELSE IF service \notin DOMAIN s[country][cons] THEN s
    ELSE IF ~SeqContains(s[country][cons][service], date) THEN s
    ELSE LET rest == SeqFilterOut(s[country][cons][service], date)
             bySrv == IF rest = <<>> THEN DictDel(s[country][cons], service)
                      ELSE DictPut(s[country][cons], service, rest)
         IN  DictPut(s, country, DictPut(s[country], cons, bySrv))

\* FreeSlotRegistry.has_match
FreeSlotRegistry_has_match(s, u) ==
    \E i \in 1..Len(u.consulates) : \E j \in 1..Len(u.services) :
        /\ u.country \in DOMAIN s
        /\ u.consulates[i] \in DOMAIN s[u.country]
        /\ u.services[j] \in DOMAIN s[u.country][u.consulates[i]]

\* FreeSlotRegistry.get_all: dict(self._slots) builds a new outer dict whose
\* values are the registry's own per-country dicts, so the copy is the set
\* of country keys it holds, each bound to the live inner dict.
FreeSlotRegistry_get_all(s) == DOMAIN s

\* What a dict returned by get_all shows when it is read: add and remove never
\* rebind a country key, so each key still leads to the registry's inner dict.
SnapshotContents(refs, s) == [c \in refs |-> s[c]]

\* snapshot.refs: the dict get_all returned; snapshot.taken: what it held then.
NoSnapshot == [valid |-> FALSE, refs |-> {}, taken |-> EmptyDict]

(***************************************************************************)
(* UserQueue: the deque and the alias index.  A queue value is the pair    *)
(* [dq, map]; every method body runs under _lock and is one atomic step.   *)
(***************************************************************************)
AliasesOf(d) == {d[i].alias : i \in 1..Len(d)}

\* UserQueue.__init__
UserQueue_init(initial) ==
    [dq |-> initial,
     map |-> [a \in AliasesOf(initial) |->
                 (CHOOSE u \in SeqToSet(initial) : u.alias = a)]]

\* UserQueue.pop_left: the deque loses its head, _map is left alone
UserQueue_pop_left(q) ==
    IF q.dq = <<>> THEN [q |-> q, ret |-> NoUser]
    ELSE [q |-> [q EXCEPT !.dq = Tail(q.dq)], ret |-> Head(q.dq)]

\* An append that lacks the test of _map: it enqueues whatever it is given.
UserQueue_append_unguarded(q, u) ==
    [dq |-> Append(q.dq, u), map |-> DictPut(q.map, u.alias, u)]

\* UserQueue.append
UserQueue_append(q, u) ==
    IF u.alias \notin DOMAIN q.map
    THEN [dq |-> Append(q.dq, u), map |-> DictPut(q.map, u.alias, u)]
    ELSE q

\* A remove that takes the identity out of the deque and leaves it indexed.
UserQueue_remove_stale(q, alias) ==
    [dq |-> SelectSeq(q.dq, LAMBDA x : x.alias # alias), map |-> q.map]

\* UserQueue.remove
UserQueue_remove(q, alias) ==
    [dq |-> SelectSeq(q.dq, LAMBDA x : x.alias # alias),
     map |-> DictDel(q.map, alias)]

\* An update that takes the old entry out and enqueues the new one at the tail.
UserQueue_update_moving(q, u) ==
    UserQueue_append(UserQueue_remove(q, u.alias), u)

\* UserQueue.update, the branch taken when the alias is indexed
UserQueue_update(q, u) ==
    [dq |-> [i \in 1..Len(q.dq) |->
                IF q.dq[i].alias = u.alias THEN u ELSE q.dq[i]],
     map |-> DictPut(q.map, u.alias, u)]

\* UserQueue.exists (reads _map without the lock)
UserQueue_exists(q, alias) == alias \in DOMAIN q.map

Q == [dq |-> dq, map |-> map]

(***************************************************************************)
(* The state of the components that are at rest while another one runs.    *)
(***************************************************************************)
\* ConfigWatcher.__init__ and start(): an empty queue, the thread running
WatcherIdle ==
    /\ cw_queue = <<>>
    /\ cw_thread = "running"
    /\ occurred = <<>>
    /\ delivered = <<>>

\* no load() call made yet
NoLoad == [called |-> FALSE, raised |-> "None", configs |-> <<>>]

\* no context manager entered
NoContext == [cpc |-> "idle"]

\* no directory scanned, no status entry written, no profile prepared
IOIdle ==
    /\ users_dir = [exists |-> FALSE, files |-> EmptyDict]
    /\ loaded = NoLoad
    /\ entry_booked = [k \in StatusKeys |-> <<>>]
    /\ entry_comment = [k \in StatusKeys |-> ""]
    /\ booked_services = {}
    /\ ctx = NoContext
    /\ tmp_dirs = {}
    /\ chrome_proc = "none"

(***************************************************************************)
(* main(): the scheduling loop.  The positions of the scheduler thread:    *)
(*   "loop"     at `while not STOP_EVT.is_set()`                           *)
(*   "pop"      the prioritization block is done, before queue.pop_left()  *)
(*   "session"  before `with chrome_session(user.alias)`                   *)
(*   "work"     inside the with-body, before finder.work(user)             *)
(*   "teardown" work() is over, chrome_session's finally has yet to run    *)
(*   "outcome"  at `if booked:`                                            *)
(*   "requeue"  exists() returned True, before queue.append(user)          *)
(*   "closing"  the loop is left, watcher.close() waits for a watcher      *)
(*              thread that is blocked on the queue lock                   *)
(*   "exited"   the loop is left, watcher and control server are closed    *)
(*   "crashed"  an exception left main()                                   *)
(***************************************************************************)
RECURSIVE MoveToFront(_, _)
\* for u in priority_users: _dq.remove(u); _dq.appendleft(u)
MoveToFront(d, priority_users) ==
    IF priority_users = <<>> THEN d
    ELSE MoveToFront(<<Head(priority_users)>> \o SeqFilterOut(d, Head(priority_users)),
                     Tail(priority_users))

\* the prioritization block of main(), run under queue._lock
Prioritized(d, s) ==
    MoveToFront(d, SelectSeq(d, LAMBDA u : FreeSlotRegistry_has_match(s, u)))

Init ==
    /\ \E initial \in {<<UserA1, UserB, UserC>>, <<UserA2, UserB, UserC>>,
                       <<UserA1, UserB>>, <<UserB, UserC>>, <<UserA1>>, <<UserC>>} :
           /\ dq = UserQueue_init(initial).dq
           /\ map = UserQueue_init(initial).map
    /\ qlock = "free"
    /\ STOP_EVT = FALSE
    /\ PAUSE_EVT = FALSE
    /\ pc = "loop"
    /\ user = NoUser
    /\ booked = "False"
    /\ exc = FALSE
    /\ session = {}
    /\ slots = EmptyDict
    /\ deletedInFlight = "no"
    /\ reply = ""
    /\ cmd_line = ""
    /\ snapshot = NoSnapshot
    /\ att = NoAttempt
    /\ status_file = NoStatus
    /\ events = <<>>
    /\ WatcherIdle
    /\ gd = [fn |-> "idle"]
    /\ IOIdle

\* while not STOP_EVT.is_set(): ... ; watcher.close(); ctrl_srv.shutdown()
LoopExit ==
    /\ pc = "loop" /\ STOP_EVT
    /\ pc' = IF qlock = "watcher" THEN "closing" ELSE "exited"
    /\ UNCHANGED <<cwvars, gd, iovars, att, status_file, events, dq, map, qlock, STOP_EVT, PAUSE_EVT, user, booked, exc, session,
                   slots, deletedInFlight, reply, cmd_line, snapshot>>

\* if PAUSE_EVT.is_set(): time.sleep(0.5); continue
LoopPaused ==
    /\ pc = "loop" /\ ~STOP_EVT /\ PAUSE_EVT
    /\ UNCHANGED vars

\* A prioritization block entered without looking at PAUSE_EVT.
Prioritize_unpaused ==
    /\ pc = "loop" /\ ~STOP_EVT
    /\ qlock = "free"
    /\ dq' = Prioritized(dq, slots)
    /\ pc' = "pop"
    /\ UNCHANGED <<cwvars, gd, iovars, att, status_file, events, map, qlock, STOP_EVT, PAUSE_EVT,
                   user, booked, exc, session, slots, deletedInFlight, reply, cmd_line, snapshot>>

\* with queue._lock: move the identities with a registry match to the front
Prioritize ==
    /\ pc = "loop" /\ ~STOP_EVT /\ ~PAUSE_EVT
    /\ qlock = "free"
    /\ dq' = Prioritized(dq, slots)
    /\ pc' = "pop"
    /\ UNCHANGED <<cwvars, gd, iovars, att, status_file, events, map, qlock, STOP_EVT, PAUSE_EVT, user, booked, exc, session,
                   slots, deletedInFlight, reply, cmd_line, snapshot>>

\* user = queue.pop_left(); if not user: time.sleep(2); continue
PopLeft ==
    /\ pc = "pop"
    /\ qlock = "free"
    /\ LET r == UserQueue_pop_left(Q) IN
           /\ dq' = r.q.dq
           /\ map' = r.q.map
           /\ user' = r.ret
           /\ pc' = IF r.ret = NoUser THEN "loop" ELSE "session"
    /\ deletedInFlight' = "no"
    /\ UNCHANGED <<cwvars, gd, iovars, att, status_file, events, qlock, STOP_EVT, PAUSE_EVT, booked, exc, session, slots, reply, cmd_line, snapshot>>

InFlight == pc \in {"session", "work", "teardown", "outcome", "requeue"}

\* chrome_session.__enter__: prepare_profile copies the template, Chrome starts
SessionStart ==
    /\ pc = "session"
    /\ session' = session \cup {user.alias}
    /\ pc' = "work"
    /\ UNCHANGED <<cwvars, gd, iovars, att, status_file, events, dq, map, qlock, STOP_EVT, PAUSE_EVT, user, booked, exc, slots,
                   deletedInFlight, reply, cmd_line, snapshot>>

\* chrome_session.__enter__ raises (_template_path / _detect_chrome: RuntimeError);
\* main() has no handler around the with statement
SessionStartRaises ==
    /\ pc = "session"
    /\ pc' = "crashed"
    /\ UNCHANGED <<cwvars, gd, iovars, att, status_file, events, dq, map, qlock, STOP_EVT, PAUSE_EVT, user, booked, exc, session,
                   slots, deletedInFlight, reply, cmd_line, snapshot>>

\* the week tokens an attempt can record: find_free_slot_month reaches
\* free_slots.add only past `user.min_date >= date_min_week`
SchedTokens == {<<"str", 1>>}

RegistryTargets(u) ==
    IF u.min_date = <<>> THEN {}
    ELSE {<<u.consulates[i], u.services[j]>> :
             i \in 1..Len(u.consulates), j \in 1..Len(u.services)}

\* SlotFinder.work returns: its declared results are True, False and None.
\* (The calendar search below decides which of them an attempt produces.)
WorkReturns ==
    /\ pc = "work"
    /\ \E r \in {"True", "False", "None"} : booked' = r
    /\ \/ slots' = slots
       \/ \E k \in RegistryTargets(user) : \E tok \in SchedTokens :
              slots' = FreeSlotRegistry_add(slots, user.country, k[1], k[2], tok)
    /\ pc' = "teardown"
    /\ UNCHANGED <<cwvars, gd, iovars, att, status_file, events, dq, map, qlock, STOP_EVT, PAUSE_EVT, user, exc, session,
                   deletedInFlight, reply, cmd_line, snapshot>>

\* SlotFinder.work: the body raises, the except clause reports and returns False
WorkCaught ==
    /\ pc = "work"
    /\ booked' = "False"
    /\ pc' = "teardown"
    /\ UNCHANGED <<cwvars, gd, iovars, att, status_file, events, dq, map, qlock, STOP_EVT, PAUSE_EVT, user, exc, session, slots,
                   deletedInFlight, reply, cmd_line, snapshot>>

\* SlotFinder.work: the body raises and the except clause raises in turn
\* (gd.take_screenshot() or _error_hook()), so the exception leaves work()
WorkHandlerRaises ==
    /\ pc = "work"
    /\ exc' = TRUE
    /\ pc' = "teardown"
    /\ UNCHANGED <<cwvars, gd, iovars, att, status_file, events, dq, map, qlock, STOP_EVT, PAUSE_EVT, user, booked, session, slots,
                   deletedInFlight, reply, cmd_line, snapshot>>

\* A with statement whose exit leaves the browser session of the identity open.
SessionEnd_leaking ==
    /\ pc = "teardown"
    /\ pc' = IF exc THEN "crashed" ELSE "outcome"
    /\ UNCHANGED <<cwvars, gd, iovars, att, status_file, events, dq, map, qlock, STOP_EVT,
                   PAUSE_EVT, user, booked, exc, session, slots, deletedInFlight,
                   reply, cmd_line, snapshot>>

\* chrome_session's finally: Chrome is terminated, the profile is removed;
\* a travelling exception goes on out of main()
SessionEnd ==
    /\ pc = "teardown"
    /\ session' = session \ {user.alias}
    /\ pc' = IF exc THEN "crashed" ELSE "outcome"
    /\ UNCHANGED <<cwvars, gd, iovars, att, status_file, events, dq, map, qlock, STOP_EVT, PAUSE_EVT, user, booked, exc, slots,
                   deletedInFlight, reply, cmd_line, snapshot>>

\* if booked: queue.remove(user.alias)
OutcomeBooked ==
    /\ pc = "outcome" /\ booked = "True"
    /\ qlock = "free"
    /\ dq' = UserQueue_remove(Q, user.alias).dq
    /\ map' = UserQueue_remove(Q, user.alias).map
    /\ pc' = "loop"
    /\ UNCHANGED <<cwvars, gd, iovars, att, status_file, events, qlock, STOP_EVT, PAUSE_EVT, user, booked, exc, session, slots,
                   deletedInFlight, reply, cmd_line, snapshot>>

\* else: if queue.exists(user.alias):
OutcomeFailed ==
    /\ pc = "outcome" /\ booked # "True"
    /\ pc' = IF UserQueue_exists(Q, user.alias) THEN "requeue" ELSE "loop"
    /\ UNCHANGED <<cwvars, gd, iovars, att, status_file, events, dq, map, qlock, STOP_EVT, PAUSE_EVT, user, booked, exc, session,
                   slots, deletedInFlight, reply, cmd_line, snapshot>>

\* queue.append(user)
Requeue ==
    /\ pc = "requeue"
    /\ qlock = "free"
    /\ dq' = UserQueue_append(Q, user).dq
    /\ map' = UserQueue_append(Q, user).map
    /\ pc' = "loop"
    /\ UNCHANGED <<cwvars, gd, iovars, att, status_file, events, qlock, STOP_EVT, PAUSE_EVT, user, booked, exc, session, slots,
                   deletedInFlight, reply, cmd_line, snapshot>>

(***************************************************************************)
(* The hot-reload callback _on_yaml_change, run on the ConfigWatcher       *)
(* thread, one event at a time.                                            *)
(***************************************************************************)
WatcherRunning == pc \notin {"exited", "crashed"} /\ qlock = "free"

\* evt.kind == DELETED: queue.remove(evt.path.stem)
WatcherDeleted ==
    /\ WatcherRunning
    /\ \E a \in Aliases :
          /\ dq' = UserQueue_remove(Q, a).dq
          /\ map' = UserQueue_remove(Q, a).map
          /\ deletedInFlight' =
                 IF InFlight /\ user.alias = a THEN "deleted" ELSE deletedInFlight
    /\ UNCHANGED <<cwvars, gd, iovars, att, status_file, events, qlock, STOP_EVT, PAUSE_EVT, pc, user, booked, exc, session,
                   slots, reply, cmd_line, snapshot>>

\* evt.kind == CREATED: queue.append(loader._parse_file(evt.path))
WatcherCreatedCfg(cfg) ==
    /\ WatcherRunning
    /\ dq' = UserQueue_append(Q, cfg).dq
    /\ map' = UserQueue_append(Q, cfg).map
    /\ deletedInFlight' =
           IF InFlight /\ user.alias = cfg.alias /\ ~UserQueue_exists(Q, cfg.alias)
           THEN "readded" ELSE deletedInFlight
    /\ UNCHANGED <<cwvars, gd, iovars, att, status_file, events, qlock, STOP_EVT, PAUSE_EVT, pc, user, booked, exc, session,
                   slots, reply, cmd_line, snapshot>>

WatcherCreated == \E cfg \in Users : WatcherCreatedCfg(cfg)

\* evt.kind == MODIFIED: queue.update(cfg), the alias is indexed
WatcherModified ==
    /\ WatcherRunning
    /\ \E cfg \in Users :
          /\ cfg.alias \in DOMAIN map
          /\ dq' = UserQueue_update(Q, cfg).dq
          /\ map' = UserQueue_update(Q, cfg).map
    /\ UNCHANGED <<cwvars, gd, iovars, att, status_file, events, qlock, STOP_EVT, PAUSE_EVT, pc, user, booked, exc, session,
                   slots, deletedInFlight, reply, cmd_line, snapshot>>

\* evt.kind == MODIFIED: queue.update(cfg), the alias is not indexed: update()
\* calls self.append(user) while it holds the non-reentrant _lock and blocks
WatcherModifiedBlocks ==
    /\ WatcherRunning
    /\ \E cfg \in Users : cfg.alias \notin DOMAIN map
    /\ qlock' = "watcher"
    /\ UNCHANGED <<cwvars, gd, iovars, att, status_file, events, dq, map, STOP_EVT, PAUSE_EVT, pc, user, booked, exc, session,
                   slots, deletedInFlight, reply, cmd_line, snapshot>>

(***************************************************************************)
(* The control server's handler (_Handler.handle), one command line.       *)
(***************************************************************************)
Commands == {"pause", "resume", "stop", "status"}

ServerRunning == pc \notin {"exited", "crashed"}

\* A handler whose resume clears both flags.
Command_resume_resets ==
    /\ ServerRunning
    /\ \E cmd \in Commands :
          /\ PAUSE_EVT' = IF cmd = "pause" THEN TRUE
                          ELSE IF cmd = "resume" THEN FALSE ELSE PAUSE_EVT
          /\ STOP_EVT' = IF cmd = "stop" THEN TRUE
                         ELSE IF cmd = "resume" THEN FALSE ELSE STOP_EVT
          /\ reply' = IF cmd = "pause" THEN "PAUSED"
                      ELSE IF cmd = "resume" THEN "RESUMED"
                      ELSE IF cmd = "stop" THEN "STOPPING" ELSE "UNKNOWN"
          /\ cmd_line' = cmd
    /\ UNCHANGED <<cwvars, gd, iovars, att, status_file, events, dq, map, qlock, pc, user, booked,
                   exc, session, slots, deletedInFlight, snapshot>>

Command ==
    /\ ServerRunning
    /\ \E cmd \in Commands :
          /\ PAUSE_EVT' = IF cmd = "pause" THEN TRUE
                          ELSE IF cmd = "resume" THEN FALSE ELSE PAUSE_EVT
          /\ STOP_EVT' = IF cmd = "stop" THEN TRUE ELSE STOP_EVT
          /\ reply' = IF cmd = "pause" THEN "PAUSED"
                      ELSE IF cmd = "resume" THEN "RESUMED"
                      ELSE IF cmd = "stop" THEN "STOPPING" ELSE "UNKNOWN"
          /\ cmd_line' = cmd
    /\ UNCHANGED <<cwvars, gd, iovars, att, status_file, events, dq, map, qlock, pc, user, booked, exc, session, slots,
                   deletedInFlight, snapshot>>

Next ==
    \/ LoopExit \/ LoopPaused \/ Prioritize \/ PopLeft
    \/ SessionStart \/ SessionStartRaises
    \/ WorkReturns \/ WorkCaught \/ WorkHandlerRaises \/ SessionEnd
    \/ OutcomeBooked \/ OutcomeFailed \/ Requeue
    \/ WatcherDeleted \/ WatcherCreated \/ WatcherModified \/ WatcherModifiedBlocks
    \/ Command

Spec == Init /\ [][Next]_vars

\* The steps of the scheduler thread (main); the thread runs whenever one of
\* them is possible: nothing else in the process can hold it back.
SchedulerStep ==
    \/ LoopExit \/ Prioritize \/ PopLeft
    \/ SessionStart \/ SessionStartRaises
    \/ WorkReturns \/ WorkCaught \/ WorkHandlerRaises \/ SessionEnd
    \/ OutcomeBooked \/ OutcomeFailed \/ Requeue

\* The program with a scheduler thread that keeps running and attempts whose
\* perception calls all return.
SpecLive == Init /\ [][Next]_vars /\ WF_vars(SchedulerStep)

(***************************************************************************)
(* The prioritization block on its own: every queue of distinct identities *)
(* and every registry content, then one pass of the block.                 *)
(***************************************************************************)
PrioUsers == {UserA1, UserB, UserC, UserD}

RECURSIVE Perms(_)
\* the orderings of a set of identities
Perms(S) ==
    IF S = {} THEN {<<>>}
    ELSE UNION {{<<u>> \o p : p \in Perms(S \ {u})} : u \in S}

PrioRegistries ==
    LET k1 == FreeSlotRegistry_add(EmptyDict, "PL", "K1", "S1", <<"str", 1>>)
        k2 == FreeSlotRegistry_add(EmptyDict, "PL", "K2", "S1", <<"str", 1>>)
    IN  {EmptyDict, k1, k2, FreeSlotRegistry_add(k1, "PL", "K2", "S1", <<"str", 1>>)}

InitPrio ==
    /\ \E S \in SUBSET PrioUsers : \E initial \in Perms(S) :
           /\ dq = UserQueue_init(initial).dq
           /\ map = UserQueue_init(initial).map
    /\ slots \in PrioRegistries
    /\ qlock = "free"
    /\ STOP_EVT = FALSE
    /\ PAUSE_EVT = FALSE
    /\ pc = "loop"
    /\ user = NoUser
    /\ booked = "False"
    /\ exc = FALSE
    /\ session = {}
    /\ deletedInFlight = "no"
    /\ reply = ""
    /\ cmd_line = ""
    /\ snapshot = NoSnapshot
    /\ att = NoAttempt
    /\ status_file = NoStatus
    /\ events = <<>>
    /\ WatcherIdle
    /\ gd = [fn |-> "idle"]
    /\ IOIdle

SpecPrio == InitPrio /\ [][Prioritize]_vars

\*--------------------------------------------------------------------------
\* One booking attempt: SlotFinder.work and the calendar search
\* (src/core/slot_finder.py).  Dates are day numbers; month 10 covers the
\* days 1..MonthLen, month 11 the next MonthLen days, and so on.  A date
\* string read from the page is <<"str", d>>, a date object <<"date", d>>.
\*--------------------------------------------------------------------------
WEEK_DAYS == <<"mon", "tue", "wed", "thu", "fri", "sat", "sun">>

MonthsInYear == 12

LastSiteMonth == 11

DisplayedMonth == 10

MonthLen == 14

MaxWeeks == 2

OpenCounts == {0, 2}

Todays == {2, 9}

StartMonths == {DisplayedMonth, DisplayedMonth + 1}

CalUsers == {UserA1, UserB, UserC, UserD}

\* datetime.strptime(s, "%d.%m.%Y").date()
strptime(s) == <<"date", s[2]>>

\* date.day
DayOfMonth(d) == ((d - 1) % MonthLen) + 1

MonthBase(m) == (m - DisplayedMonth) * MonthLen

\* Python list indexing: valid for -n <= i < n, negative counts from the end.
PyValidIndex(n, i) == i >= 0 - n /\ i < n

PyIndex(n, i) == IF i < 0 THEN i + n ELSE i

\* UserConfig.earliest_allowed
earliest_allowed(u, today) ==
    IF u.min_date # <<>> THEN u.min_date[1]
    ELSE IF u.relative_days # <<>> THEN today + u.relative_days[1]
    ELSE today

\* The (service, consulate) pairs in the order _find_slots visits them.
Targets(u) ==
    LET nc == Len(u.consulates)
        n  == Len(u.services) * nc
    IN [i \in 1..n |-> [srv  |-> u.services[((i - 1) \div nc) + 1],
                        cons |-> u.consulates[((i - 1) % nc) + 1]]]

\* extract_slots_info: the week triples parse_date_slots reads from a month.
WeekTriple(ws, n) == <<<<"str", ws>>, <<"str", ws + 6>>, n>>

MonthViews(m) ==
    LET w(k) == MonthBase(m) + 1 + 7 * (k - 1)
    IN {<<>>}
       \cup {<<WeekTriple(w(k), n)>> : k \in 1..MaxWeeks, n \in OpenCounts}
       \cup {<<WeekTriple(w(1), n1), WeekTriple(w(2), n2)>> :
                n1 \in OpenCounts, n2 \in OpenCounts}

NoClick == <<>>

StartAttempt(u, today) ==
    [cpc |-> "start", cuser |-> u, today |-> today, ti |-> 1,
     is_found |-> "unbound", month_no |-> 0, end_year |-> FALSE,
     view |-> <<>>, wk |-> 1, mfound |-> "False", week |-> 0,
     start |-> 0, idx |-> 0, dt |-> 0, band |-> 0,
     clicked |-> NoClick, confirmed |-> FALSE, dismissed |-> FALSE,
     steps |-> <<>>, ret |-> "running"]

Emit(hook, d) == Append(events, [hook |-> hook, date |-> d])

Return(a, r) == [a EXCEPT !.cpc = "done", !.ret = r]

Raise(a) == [a EXCEPT !.cpc = "except"]

InitCal ==
    /\ \E u \in CalUsers, today \in Todays :
          /\ att = StartAttempt(u, today)
          /\ user = u
          /\ map = DictPut(EmptyDict, u.alias, u)
          /\ session = {u.alias}
    /\ dq = <<>>
    /\ qlock = "free"
    /\ STOP_EVT = FALSE
    /\ PAUSE_EVT = FALSE
    /\ pc = "work"
    /\ booked = "False"
    /\ exc = FALSE
    /\ deletedInFlight = "no"
    /\ reply = ""
    /\ cmd_line = ""
    /\ snapshot = NoSnapshot
    /\ slots = EmptyDict
    /\ status_file = NoStatus
    /\ events = <<>>
    /\ WatcherIdle
    /\ gd = [fn |-> "idle"]
    /\ IOIdle

\* work, l.104-110: announce the identity, then log in.
WorkStart ==
    /\ att.cpc = "start"
    /\ \E login \in BOOLEAN :
          LET a == [att EXCEPT !.steps = <<[step |-> "login", ok |-> login]>>]
          IN att' = IF login THEN [a EXCEPT !.cpc = "target"]
                    ELSE Return(a, "False")
    /\ events' = Emit("next_user", <<>>)
    /\ UNCHANGED <<cwvars, gd, iovars, schedvars, slots, status_file>>

\* The index of the first target of the next service (break of the inner loop).
NextService(u, i) ==
    LET nc == Len(u.consulates) IN (((i - 1) \div nc) + 1) * nc + 1

\* The steps _find_slots runs for one target when the step fail_at fails
\* ("none": every step succeeds), each with its result; the result of
\* fill_data_personal is not looked at (l.950).
WIZARD_STEPS == <<"wizard", "personal", "consulate", "service", "page", "wait">>

StepIndex(name) == CHOOSE i \in 1..Len(WIZARD_STEPS) : WIZARD_STEPS[i] = name

WizardRun(fail_at, personal_ok) ==
    LET last == IF fail_at = "none" THEN Len(WIZARD_STEPS)
                ELSE StepIndex(fail_at)
    IN [i \in 1..last |->
          [step |-> WIZARD_STEPS[i],
           ok   |-> IF WIZARD_STEPS[i] = "personal" THEN personal_ok
                    ELSE WIZARD_STEPS[i] # fail_at]]

\* _find_slots, l.942-990: the wizard steps in front of the calendar.  A
\* failed wait is either "no slots"/queue page (None: break) or a page that
\* never loads (False twice: error, return False).
OpenTarget ==
    /\ att.cpc = "target"
    /\ IF att.ti > Len(Targets(att.cuser))
       THEN /\ att' = IF att.is_found = "unbound" THEN Raise(att)
                      ELSE Return(att, att.is_found)
            /\ UNCHANGED events
       ELSE \E fail_at \in {"none", "wizard", "consulate", "service", "page",
                            "wait"},
               personal_ok \in BOOLEAN, wait_none \in BOOLEAN :
               LET run == WizardRun(fail_at, personal_ok)
                   a   == [att EXCEPT !.steps = @ \o run]
                   e1  == IF fail_at # "wizard" /\ ~personal_ok
                          THEN Emit("error", <<>>) ELSE events
               IN /\ fail_at = "wizard" => personal_ok
                  /\ fail_at # "wait" => ~wait_none
                  /\ att' = CASE fail_at = "none" ->
                                   [a EXCEPT !.cpc = "months"]
                              [] fail_at = "wait" /\ wait_none ->
                                   [a EXCEPT !.ti = NextService(att.cuser, att.ti)]
                              [] OTHER -> Return(a, "False")
                  /\ events' = IF fail_at \in {"consulate", "service", "page"}
                                  \/ (fail_at = "wait" /\ ~wait_none)
                               THEN Append(e1, [hook |-> "error", date |-> <<>>])
                               ELSE e1
    /\ UNCHANGED <<cwvars, gd, iovars, schedvars, slots, status_file>>

\* find_free_slot_months, l.774-790: read the displayed month's name.
MonthsStart ==
    /\ att.cpc = "months"
    /\ \/ \E m \in StartMonths :
             att' = [att EXCEPT !.cpc = "month_loop", !.month_no = m,
                                !.end_year = FALSE, !.is_found = "False",
                                !.steps = Append(@, [step |-> "calendar",
                                                     ok |-> TRUE])]
       \/ att' = Raise(att)
    /\ UNCHANGED <<cwvars, gd, iovars, schedvars, slots, status_file, events>>

\* find_free_slot_months, l.791-793, and find_free_slot_month, l.749-758:
\* the loop test, then the week triples of the month on the page.
MonthLoop ==
    /\ att.cpc = "month_loop"
    /\ IF att.end_year
       THEN att' = [att EXCEPT !.cpc = "months_ret"]
       ELSE \E v \in MonthViews(att.month_no) :
               att' = [att EXCEPT !.cpc = "week_gate", !.view = v, !.wk = 1,
                                  !.mfound = "False"]
    /\ UNCHANGED <<cwvars, gd, iovars, schedvars, slots, status_file, events>>

\* find_free_slot_month, l.760-772: one week triple of the month.
WeekGate ==
    /\ att.cpc = "week_gate"
    /\ IF att.wk > Len(att.view)
       THEN /\ att' = [att EXCEPT !.cpc = "month_ret", !.is_found = att.mfound]
            /\ UNCHANGED slots
       ELSE LET date_min_week_str == att.view[att.wk][1]
                count_slots       == att.view[att.wk][3]
                date_min_week     == strptime(date_min_week_str)
                t                 == Targets(att.cuser)[att.ti]
            IN IF count_slots > 0
               THEN IF att.cuser.min_date = <<>>
                    THEN /\ att' = Raise(att)
                         /\ UNCHANGED slots
                    ELSE IF att.cuser.min_date[1] >= date_min_week[2]
                    THEN /\ slots' = FreeSlotRegistry_add(slots,
                                        att.cuser.country, t.cons, t.srv,
                                        date_min_week_str)
                         /\ att' = [att EXCEPT !.cpc = "week",
                                               !.week = date_min_week[2]]
                    ELSE /\ att' = [att EXCEPT !.wk = @ + 1]
                         /\ UNCHANGED slots
               ELSE /\ att' = [att EXCEPT !.wk = @ + 1]
                    /\ UNCHANGED slots
    /\ UNCHANGED <<cwvars, gd, iovars, schedvars, status_file, events>>

\* The value find_free_slot_week hands back to find_free_slot_month,
\* l.765-770: None breaks the loop over the weeks.
WeekReturns(a, v) ==
    IF v = "None"
    THEN [a EXCEPT !.cpc = "month_ret", !.mfound = v, !.is_found = v]
    ELSE [a EXCEPT !.cpc = "week_gate", !.mfound = v, !.wk = @ + 1]

\* find_free_slot_week, l.698-727: open the week and compute the first day.
WeekEnter ==
    /\ att.cpc = "week"
    /\ \E label_found \in BOOLEAN :
          IF label_found
          THEN /\ att' = [att EXCEPT
                            !.cpc = "day", !.idx = 0, !.dt = att.week,
                            !.start = IF att.week <= att.today
                                      THEN DayOfMonth(att.today)
                                           - DayOfMonth(att.week) + 1
                                      ELSE 0]
               /\ UNCHANGED events
          ELSE /\ att' = WeekReturns(att, "False")
               /\ events' = Emit("error", <<>>)
    /\ UNCHANGED <<cwvars, gd, iovars, schedvars, slots, status_file>>

\* find_free_slot_week, l.729-733: the next (number_day, day) of
\* enumerate(WEEK_DAYS, start=start), and the running date dt.
DayStep ==
    /\ att.cpc = "day"
    /\ att' = IF WEEK_DAYS[att.idx + 1] = "sat"
              THEN WeekReturns(att, "False")
              ELSE [att EXCEPT !.cpc = "band",
                               !.dt = @ + (att.start + att.idx) - 1]
    /\ UNCHANGED <<cwvars, gd, iovars, schedvars, slots, status_file, events>>

\* find_next_day_in_week, l.636-696, for number_day = start + idx, once the
\* lower bound of the band is on the page.
FindNextDay ==
    /\ att.cpc = "band"
    /\ LET number_day == att.start + att.idx
           n == Len(WEEK_DAYS)
       IN \E label_found \in BOOLEAN :
             IF ~PyValidIndex(n, number_day + 1)
                   \/ ~PyValidIndex(n, number_day)
             THEN /\ att' = Raise(att)
                  /\ UNCHANGED events
             ELSE IF label_found
             THEN /\ att' = [att EXCEPT !.cpc = "scan",
                                        !.band = PyIndex(n, number_day)]
                  /\ UNCHANGED events
             ELSE /\ att' = WeekReturns(att, "None")
                  /\ events' = Emit("error", <<>>)
    /\ UNCHANGED <<cwvars, gd, iovars, schedvars, slots, status_file>>

\* find_next_day_in_week, l.638-677: the lower bound of the band (the next
\* weekday's label or the back button) is not on the page; the loop repeats.
FindNextDayRetry ==
    /\ att.cpc = "band"
    /\ att.start + att.idx >= 4
          \/ PyValidIndex(Len(WEEK_DAYS), att.start + att.idx + 1)
    /\ UNCHANGED vars

\* find_first_free_slot_in_day_week, l.581-592 and 629-634: the date test,
\* the search for the marker in the band, and the click on it.
ScanDay ==
    /\ att.cpc = "scan"
    /\ IF att.cuser.min_date = <<>>
       THEN /\ att' = Raise(att)
            /\ UNCHANGED events
       ELSE \E marker \in BOOLEAN :
               IF att.dt <= att.cuser.min_date[1] /\ marker
               THEN /\ events' = Emit("slot_found", <<att.dt>>)
                    /\ att' = [att EXCEPT
                                 !.cpc = "confirm",
                                 !.clicked = <<[week |-> att.week,
                                                day  |-> att.week + att.band,
                                                dt   |-> att.dt]>>]
               ELSE /\ att' = [att EXCEPT !.cpc = "day", !.idx = @ + 1]
                    /\ UNCHANGED events
    /\ UNCHANGED <<cwvars, gd, iovars, schedvars, slots, status_file>>

\* A confirm step that gives the week's registry entry back when it fails.
Confirm_releasing ==
    /\ att.cpc = "confirm"
    /\ \E r \in {"ok", "no_button", "no_robot_check"} :
          /\ att' = IF r = "ok"
                    THEN [att EXCEPT !.cpc = "ack", !.confirmed = TRUE]
                    ELSE [att EXCEPT !.cpc = "month_ret", !.mfound = "None",
                                     !.is_found = "None"]
          /\ events' = IF r = "no_button"
                       THEN Append(events, [hook |-> "error", date |-> <<>>])
                       ELSE events
          /\ slots' = IF r = "ok" THEN slots
                      ELSE FreeSlotRegistry_remove(slots, att.cuser.country,
                               Targets(att.cuser)[att.ti].cons,
                               Targets(att.cuser)[att.ti].srv,
                               <<"str", att.week>>)
    /\ UNCHANGED <<cwvars, gd, iovars, schedvars, status_file>>

\* find_first_free_slot_in_day_week, l.596-610: CONFIRM and the
\* "I am not a robot" check, each tried a second time.
Confirm ==
    /\ att.cpc = "confirm"
    /\ \E r \in {"ok", "no_button", "no_robot_check"} :
          /\ att' = IF r = "ok"
                    THEN [att EXCEPT !.cpc = "ack", !.confirmed = TRUE]
                    ELSE WeekReturns(att, "None")
          /\ events' = IF r = "no_button" THEN Emit("error", <<>>) ELSE events
    /\ UNCHANGED <<cwvars, gd, iovars, schedvars, slots, status_file>>

\* find_first_free_slot_in_day_week, l.612-620: the processing
\* acknowledgment and the button that dismisses the success dialog.
Acknowledge ==
    /\ att.cpc = "ack"
    /\ \E ok \in BOOLEAN :
          IF ok
          THEN /\ att' = [att EXCEPT !.cpc = "record", !.dismissed = TRUE]
               /\ UNCHANGED events
          ELSE /\ att' = WeekReturns(att, "None")
               /\ events' = Emit("error", <<>>)
    /\ UNCHANGED <<cwvars, gd, iovars, schedvars, slots, status_file>>

\* find_first_free_slot_in_day_week, l.622: YAMLLoader has no attribute
\* record_booked_slot, so the call raises AttributeError; l.623-628 (the
\* registry removal, the booked hook, return True) are not reached.
RecordBooking ==
    /\ att.cpc = "record"
    /\ att' = Raise(att)
    /\ UNCHANGED <<cwvars, gd, iovars, schedvars, slots, status_file, events>>

\* find_free_slot_months, l.795-826: leave the loop or select the next month.
MonthRet ==
    /\ att.cpc = "month_ret"
    /\ IF att.is_found \in {"True", "None"}
       THEN /\ att' = [att EXCEPT !.cpc = "months_ret"]
            /\ UNCHANGED events
       ELSE IF ~PyValidIndex(MonthsInYear, att.month_no + 1 - 1)
       THEN /\ att' = Raise(att)
            /\ UNCHANGED events
       ELSE \E clicked \in BOOLEAN :
               /\ att' = [att EXCEPT
                            !.cpc = "month_loop", !.month_no = @ + 1,
                            !.end_year = (att.month_no + 1 = LastSiteMonth)]
               /\ events' = IF clicked THEN events ELSE Emit("error", <<>>)
    /\ UNCHANGED <<cwvars, gd, iovars, schedvars, slots, status_file>>

\* _find_slots, l.968-972: the result of find_free_slot_months.
MonthsRet ==
    /\ att.cpc = "months_ret"
    /\ att' = IF att.is_found = "None" THEN Return(att, "None")
              ELSE [att EXCEPT !.cpc = "target", !.ti = @ + 1]
    /\ UNCHANGED <<cwvars, gd, iovars, schedvars, slots, status_file, events>>

\* work, l.114-117: the handler of every exception of the attempt; the
\* screenshot it takes can raise in turn, and that exception leaves work.
WorkExcept ==
    /\ att.cpc = "except"
    /\ \/ /\ att' = Return(att, "False")
          /\ events' = Emit("error", <<>>)
       \/ /\ att' = [att EXCEPT !.cpc = "raised"]
          /\ UNCHANGED events
    /\ UNCHANGED <<cwvars, gd, iovars, schedvars, slots, status_file>>

\* manager.py, l.167-176: the scheduler receives the attempt's result.
AttemptDone ==
    /\ att.cpc = "done"
    /\ pc = "work"
    /\ booked' = att.ret
    /\ pc' = "teardown"
    /\ UNCHANGED <<cwvars, gd, iovars, dq, map, qlock, STOP_EVT, PAUSE_EVT, user, exc,
                   session, deletedInFlight, reply, cmd_line, snapshot, slots, att,
                   status_file, events>>

NextCal ==
    \/ WorkStart \/ OpenTarget \/ MonthsStart \/ MonthLoop \/ WeekGate
    \/ WeekEnter \/ DayStep \/ FindNextDay \/ FindNextDayRetry \/ ScanDay
    \/ Confirm \/ Acknowledge \/ RecordBooking \/ MonthRet \/ MonthsRet
    \/ WorkExcept \/ AttemptDone

SpecCal == InitCal /\ [][NextCal]_vars

\* The steps of an attempt that follow from the thread running: every step
\* but the one that needs the band's lower bound to be found on the page.
\* Each attempt step waits for perception calls that return (find_text,
\* find_text_any and find_image are bounded by their attempt count).
AttemptStep ==
    \/ WorkStart \/ OpenTarget \/ MonthsStart \/ MonthLoop \/ WeekGate
    \/ WeekEnter \/ DayStep \/ ScanDay
    \/ Confirm \/ Acknowledge \/ RecordBooking \/ MonthRet \/ MonthsRet
    \/ WorkExcept \/ AttemptDone

\* An attempt whose thread keeps running; what the page shows is not
\* constrained, so the label find_next_day_in_week waits for may never come.
SpecCalLive == InitCal /\ [][NextCal]_vars /\ WF_vars(AttemptStep)

\*--------------------------------------------------------------------------
\* The Free-Slot Registry on its own: any sequence of add, remove and get_all
\* calls (src/core/free_slot_db.py).
\*--------------------------------------------------------------------------
RegKeys == {<<"PL", "K1", "S1">>, <<"PL", "K2", "S1">>, <<"UA", "K1", "S1">>}

\* add is handed the week's date string (slot_finder.py l.765), remove the
\* date object dt (l.623) or a string.
RegDates == {<<"str", 1>>, <<"str", 8>>}

RegRemoveDates == RegDates \cup {<<"date", 1>>}

RegUsers == {UserA1, UserB, UserC, [UserA1 EXCEPT !.country = "UA"]}

InitReg ==
    /\ slots = EmptyDict
    /\ snapshot = NoSnapshot
    /\ dq = <<>>
    /\ map = EmptyDict
    /\ qlock = "free"
    /\ STOP_EVT = FALSE
    /\ PAUSE_EVT = FALSE
    /\ pc = "loop"
    /\ user = NoUser
    /\ booked = "False"
    /\ exc = FALSE
    /\ session = {}
    /\ deletedInFlight = "no"
    /\ reply = ""
    /\ cmd_line = ""
    /\ att = NoAttempt
    /\ status_file = NoStatus
    /\ events = <<>>
    /\ WatcherIdle
    /\ gd = [fn |-> "idle"]
    /\ IOIdle

regframe == <<dq, map, qlock, STOP_EVT, PAUSE_EVT, pc, user, booked, exc,
              session, deletedInFlight, reply, cmd_line, att, status_file,
              events>>

RegAdd ==
    /\ \E k \in RegKeys, d \in RegDates :
          slots' = FreeSlotRegistry_add(slots, k[1], k[2], k[3], d)
    /\ UNCHANGED <<cwvars, gd, iovars, regframe, snapshot>>

RegRemove ==
    /\ \E k \in RegKeys, d \in RegRemoveDates :
          slots' = FreeSlotRegistry_remove(slots, k[1], k[2], k[3], d)
    /\ UNCHANGED <<cwvars, gd, iovars, regframe, snapshot>>

RegGetAll ==
    /\ ~snapshot.valid
    /\ snapshot' = [valid |-> TRUE, refs |-> FreeSlotRegistry_get_all(slots),
                    taken |-> slots]
    /\ UNCHANGED <<cwvars, gd, iovars, regframe, slots>>

NextReg == RegAdd \/ RegRemove \/ RegGetAll

SpecReg == InitReg /\ [][NextReg]_vars

\*--------------------------------------------------------------------------
\* The hot-reload path on its own: file-system events, the ConfigWatcher
\* thread and the callback _on_yaml_change (src/bot_io/config_watcher.py,
\* src/manager.py, src/bot_io/yaml_loader.py).
\*
\* A path is [stem, suffix]; the content of a file is what yaml.safe_load
\* gives: kind "mapping" with the set of required fields it lacks and its
\* optional `alias` field, or kind "sequence" (a YAML list).
\*--------------------------------------------------------------------------
REQUIRED_FIELDS ==
    {"key_path", "birthdate", "gender", "country", "consulates", "services"}

\* a YAML mapping that holds every required field; aliasField is <<>> or <<a>>
RawConfig(body, aliasField) ==
    [kind |-> "mapping", missing |-> {}, alias |-> aliasField, body |-> body]

\* the file `{}`: a mapping without any field
RawEmpty ==
    [kind |-> "mapping", missing |-> REQUIRED_FIELDS, alias |-> <<>>, body |-> NoUser]

\* a mapping with `service:` where `services:` is required (Tests.py, l.59-71)
RawNoServices ==
    [kind |-> "mapping", missing |-> {"services"}, alias |-> <<>>, body |-> NoUser]

\* a YAML list: raw.keys() raises AttributeError
RawList ==
    [kind |-> "sequence", missing |-> {}, alias |-> <<>>, body |-> NoUser]

\* YAMLLoader._parse_file: the result is [raised, cfg]
YAMLLoader_parse_file(path, raw) ==
    IF raw.kind # "mapping" THEN [raised |-> "Exception", cfg |-> NoUser]
    ELSE IF raw.missing # {} THEN [raised |-> "ConfigError", cfg |-> NoUser]
    ELSE [raised |-> "None",
          cfg |-> [raw.body EXCEPT
                      !.alias = IF raw.alias # <<>> THEN raw.alias[1] ELSE path.stem,
                      !.source_file = path.stem]]

\* str.lower() on the suffixes of the model
Lower(suffix) == IF suffix = ".YAML" THEN ".yaml" ELSE suffix

\* the paths events arrive for
YamlA == [stem |-> "A", suffix |-> ".yaml"]
YamlBVisa == [stem |-> "b-visa", suffix |-> ".YAML"]

\* watchdog's FileSystemEvent: src_path and is_directory; beside the two
\* configs, a text file and a directory named old.yaml
FsEvents ==
    {[src_path |-> YamlA, is_directory |-> FALSE],
     [src_path |-> YamlBVisa, is_directory |-> FALSE],
     [src_path |-> [stem |-> "notes", suffix |-> ".txt"], is_directory |-> FALSE],
     [src_path |-> [stem |-> "old", suffix |-> ".yaml"], is_directory |-> TRUE]}

ChangeKinds == {"CREATED", "MODIFIED", "DELETED"}

ChangeEvent(path, kind) == [path |-> path, kind |-> kind]

\* what the file at a path can hold when the callback reads it
RawsAt(path) ==
    IF path = YamlA THEN {RawConfig(UserA1, <<>>), RawConfig(UserA2, <<>>),
                          RawEmpty, RawList}
    ELSE {RawConfig(UserB, <<"B">>), RawEmpty}

\* b-visa.YAML, which holds `alias: B`, as the loader parses it
UserBVisa == YAMLLoader_parse_file(YamlBVisa, RawConfig(UserB, <<"B">>)).cfg

\* A handler that queues every event it is called with.
YAMLHandler_push_all(q, event, kind) ==
    Append(q, ChangeEvent(event.src_path, kind))

\* _YAMLHandler._maybe_push
YAMLHandler_maybe_push(q, event, kind) ==
    IF event.is_directory THEN q
    ELSE IF Lower(event.src_path.suffix) # ".yaml" THEN q
    ELSE Append(q, ChangeEvent(event.src_path, kind))

\* _on_yaml_change(evt, loader, queue) with the file holding raw.  The result:
\* the queue, what leaves the callback ("None" or "Exception"), whether
\* update() blocks on the lock it holds, the line logged, the parsed identity.
on_yaml_change(evt, raw, q) ==
    IF evt.kind = "DELETED"
    THEN [q |-> UserQueue_remove(q, evt.path.stem), raised |-> "None",
          blocked |-> FALSE, log |-> "YAML deleted", cfg |-> NoUser]
    ELSE LET r == YAMLLoader_parse_file(evt.path, raw)
         IN  IF r.raised = "ConfigError"
             THEN [q |-> q, raised |-> "None", blocked |-> FALSE,
                   log |-> "Invalid YAML", cfg |-> NoUser]
             ELSE IF r.raised # "None"
             THEN [q |-> q, raised |-> r.raised, blocked |-> FALSE,
                   log |-> "", cfg |-> NoUser]
             ELSE IF evt.kind = "CREATED"
             THEN [q |-> UserQueue_append(q, r.cfg), raised |-> "None",
                   blocked |-> FALSE, log |-> "YAML created", cfg |-> r.cfg]
             ELSE IF UserQueue_exists(q, r.cfg.alias)
             THEN [q |-> UserQueue_update(q, r.cfg), raised |-> "None",
                   blocked |-> FALSE, log |-> "YAML modified", cfg |-> r.cfg]
             ELSE [q |-> q, raised |-> "None", blocked |-> TRUE,
                   log |-> "", cfg |-> r.cfg]

\* the number of *.yaml events of one run
MaxEvents == 3

\* an event on a regular file named *.yaml, in any letter case
IsYamlFileEvent(event) ==
    ~event.is_directory /\ event.src_path.suffix \in {".yaml", ".YAML"}

InitWatch ==
    /\ \E initial \in {<<UserA1>>, <<UserA1, UserBVisa>>, <<UserBVisa>>},
          popped \in BOOLEAN :
          LET q0 == UserQueue_init(initial)
              q == IF popped THEN UserQueue_pop_left(q0).q ELSE q0
          IN  dq = q.dq /\ map = q.map
    /\ qlock = "free"
    /\ STOP_EVT = FALSE
    /\ PAUSE_EVT = FALSE
    /\ pc = "loop"
    /\ user = NoUser
    /\ booked = "False"
    /\ exc = FALSE
    /\ session = {}
    /\ slots = EmptyDict
    /\ deletedInFlight = "no"
    /\ reply = ""
    /\ cmd_line = ""
    /\ snapshot = NoSnapshot
    /\ att = NoAttempt
    /\ status_file = NoStatus
    /\ events = <<>>
    /\ WatcherIdle
    /\ gd = [fn |-> "idle"]
    /\ IOIdle

watchframe == <<STOP_EVT, PAUSE_EVT, pc, user, booked, exc, session, slots,
                deletedInFlight, reply, cmd_line, snapshot, att, status_file,
                events, iovars, gd>>

\* the Observer thread calls on_created / on_modified / on_deleted
FsEvent ==
    /\ cw_thread # "stopped"
    /\ Len(occurred) < MaxEvents
    /\ \E event \in FsEvents, kind \in ChangeKinds :
          /\ cw_queue' = YAMLHandler_maybe_push(cw_queue, event, kind)
          /\ occurred' = IF IsYamlFileEvent(event)
                         THEN Append(occurred, ChangeEvent(event.src_path, kind))
                         ELSE occurred
    /\ UNCHANGED <<cw_thread, delivered, dq, map, qlock, watchframe>>

\* An iteration of run() that calls self._cb(evt) outside any try: what the
\* callback raises ends the thread.
WatcherDeliver_unguarded ==
    /\ cw_thread = "running"
    /\ qlock = "free"
    /\ cw_queue # <<>>
    /\ \E raw \in RawsAt(Head(cw_queue).path) :
          LET evt == Head(cw_queue)
              r == on_yaml_change(evt, raw, Q)
          IN  /\ cw_queue' = Tail(cw_queue)
              /\ delivered' = Append(delivered,
                     [evt |-> evt, cfg |-> r.cfg,
                      log |-> IF r.raised # "None" THEN "Callback raised" ELSE r.log])
              /\ dq' = r.q.dq
              /\ map' = r.q.map
              /\ cw_thread' = IF r.blocked THEN "blocked"
                              ELSE IF r.raised # "None" THEN "stopped"
                              ELSE "running"
              /\ qlock' = IF r.blocked THEN "watcher" ELSE qlock
    /\ UNCHANGED <<occurred, watchframe>>

\* ConfigWatcher.run, one iteration that finds an event: self._cb(evt) inside
\* try / except Exception
WatcherDeliver ==
    /\ cw_thread = "running"
    /\ qlock = "free"
    /\ cw_queue # <<>>
    /\ \E raw \in RawsAt(Head(cw_queue).path) :
          LET evt == Head(cw_queue)
              r == on_yaml_change(evt, raw, Q)
          IN  /\ cw_queue' = Tail(cw_queue)
              /\ delivered' = Append(delivered,
                     [evt |-> evt, cfg |-> r.cfg,
                      log |-> IF r.raised # "None" THEN "Callback raised" ELSE r.log])
              /\ dq' = r.q.dq
              /\ map' = r.q.map
              /\ cw_thread' = IF r.blocked THEN "blocked" ELSE "running"
              /\ qlock' = IF r.blocked THEN "watcher" ELSE qlock
    /\ UNCHANGED <<occurred, watchframe>>

\* ConfigWatcher.close(): _stop_evt is set, the loop of run() is left and the
\* observer is stopped
WatcherClose ==
    /\ cw_thread = "running"
    /\ cw_thread' = "stopped"
    /\ UNCHANGED <<cw_queue, occurred, delivered, dq, map, qlock, watchframe>>

NextWatch == FsEvent \/ WatcherDeliver \/ WatcherClose

SpecWatch == InitWatch /\ [][NextWatch]_vars

\*--------------------------------------------------------------------------
\* The status record of one identity's YAML file: any sequence of
\* record_service_status calls (src/bot_io/yaml_loader.py).  The file is the
\* triple of maps status_file, entry_booked, entry_comment; a status entry
\* that does not exist has the status "absent".
\*--------------------------------------------------------------------------
\* the length a `booked` list may reach
MaxBooked == 2

\* YAMLLoader.record_service_status; date and time_ are <<>> (None) or <<v>>.
\* The result: the file as written, user.booked_services, the exception.
YAMLLoader_record_service_status(file, services, u, consulate, service, status, date, time_, comment) ==
    LET k == <<u.country, consulate, service>>
    IN  IF status = "booked"
        THEN IF date = <<>> \/ time_ = <<>>
             THEN [file |-> file, services |-> services, raised |-> "ValueError"]
             ELSE [file |-> [file EXCEPT
                                !.status[k] = status,
                                !.booked[k] = Append(@, <<date[1], time_[1]>>)],
                   services |-> services \cup {k}, raised |-> "None"]
        ELSE [file |-> [file EXCEPT
                           !.status[k] = status,
                           !.comment[k] = IF comment # "" THEN comment ELSE @],
              services |-> services, raised |-> "None"]

\* the identity as _parse_file loaded it from its file
InitStatus ==
    /\ user \in {UserA1, UserB, UserC}
    /\ status_file = user.service_status
    /\ entry_booked = [k \in StatusKeys |->
                          IF user.service_status[k] = "booked"
                          THEN <<<<1, "10:00">>>> ELSE <<>>]
    /\ entry_comment = [k \in StatusKeys |-> ""]
    /\ booked_services = {k \in StatusKeys : user.service_status[k] = "booked"}
    /\ users_dir = [exists |-> FALSE, files |-> EmptyDict]
    /\ loaded = NoLoad
    /\ ctx = NoContext
    /\ tmp_dirs = {}
    /\ chrome_proc = "none"
    /\ WatcherIdle
    /\ gd = [fn |-> "idle"]
    /\ dq = <<>>
    /\ map = EmptyDict
    /\ qlock = "free"
    /\ STOP_EVT = FALSE
    /\ PAUSE_EVT = FALSE
    /\ pc = "work"
    /\ booked = "False"
    /\ exc = FALSE
    /\ session = {}
    /\ slots = EmptyDict
    /\ deletedInFlight = "no"
    /\ reply = ""
    /\ cmd_line = ""
    /\ snapshot = NoSnapshot
    /\ att = NoAttempt
    /\ events = <<>>

\* one call YAMLLoader.record_service_status(user, consulate, service, ...)
RecordServiceStatus ==
    /\ \E consulate \in SeqToSet(user.consulates),
          service \in SeqToSet(user.services),
          status \in {"booked", "unavailable"},
          date \in {<<>>, <<1>>, <<8>>},
          time_ \in {<<>>, <<"10:00">>},
          comment \in {"", "closed"} :
          LET r == YAMLLoader_record_service_status(
                       [status |-> status_file, booked |-> entry_booked,
                        comment |-> entry_comment],
                       booked_services, user, consulate, service, status,
                       date, time_, comment)
          IN  /\ \A k \in StatusKeys : Len(r.file.booked[k]) <= MaxBooked
              /\ status_file' = r.file.status
              /\ entry_booked' = r.file.booked
              /\ entry_comment' = r.file.comment
              /\ booked_services' = r.services
    /\ UNCHANGED <<cwvars, gd, schedvars, slots, att, events, users_dir, loaded, ctx,
                   tmp_dirs, chrome_proc>>

SpecStatus == InitStatus /\ [][RecordServiceStatus]_vars

\*--------------------------------------------------------------------------
\* Start-up: YAMLLoader.load on the users directory and the queue main()
\* builds from it (src/bot_io/yaml_loader.py, src/manager.py l.125-133).
\* A directory is [exists, files]; files[i] is the content of LoadPaths[i],
\* or NoFile when the directory has no such entry.
\*--------------------------------------------------------------------------
\* the entries a users directory can have, as sorted() orders them
LoadPaths ==
    <<[stem |-> "A", suffix |-> ".yaml"], [stem |-> "bad", suffix |-> ".yaml"],
      [stem |-> "notes", suffix |-> ".txt"], [stem |-> "user1", suffix |-> ".yaml"]>>

NoFile == [kind |-> "absent", missing |-> {}, alias |-> <<>>, body |-> NoUser]

\* A load that gives up at the first file it cannot parse.
YAMLLoader_load_strict(dir) ==
    LET globbed == SelectSeq(<<1, 2, 3, 4>>, LAMBDA i :
                       dir.files[i] # NoFile /\ LoadPaths[i].suffix = ".yaml")
        parsed == [j \in 1..Len(globbed) |->
                      YAMLLoader_parse_file(LoadPaths[globbed[j]], dir.files[globbed[j]])]
    IN  IF ~dir.exists \/ globbed = <<>> \/ \E j \in 1..Len(parsed) : parsed[j].raised # "None"
        THEN [called |-> TRUE, raised |-> "ConfigError", configs |-> <<>>]
        ELSE [called |-> TRUE, raised |-> "None",
              configs |-> [j \in 1..Len(parsed) |-> parsed[j].cfg]]

\* YAMLLoader.load: sorted(glob("*.yaml")), a file that raises is skipped
YAMLLoader_load(dir) ==
    LET valid == SelectSeq(<<1, 2, 3, 4>>, LAMBDA i :
                     /\ dir.files[i] # NoFile
                     /\ LoadPaths[i].suffix = ".yaml"
                     /\ YAMLLoader_parse_file(LoadPaths[i], dir.files[i]).raised = "None")
    IN  IF ~dir.exists \/ valid = <<>>
        THEN [called |-> TRUE, raised |-> "ConfigError", configs |-> <<>>]
        ELSE [called |-> TRUE, raised |-> "None",
              configs |-> [j \in 1..Len(valid) |->
                  YAMLLoader_parse_file(LoadPaths[valid[j]], dir.files[valid[j]]).cfg]]

InitLoad ==
    /\ \/ users_dir = [exists |-> FALSE, files |-> [i \in 1..4 |-> NoFile]]
       \/ \E a \in {NoFile, RawConfig(UserA1, <<>>), RawConfig(UserA2, <<>>), RawList},
             b \in {NoFile, RawEmpty, RawList},
             n \in {NoFile, RawConfig(UserC, <<>>)},
             u \in {NoFile, RawNoServices, RawConfig(UserB, <<>>)} :
             users_dir = [exists |-> TRUE, files |-> <<a, b, n, u>>]
    /\ loaded = NoLoad
    /\ entry_booked = [k \in StatusKeys |-> <<>>]
    /\ entry_comment = [k \in StatusKeys |-> ""]
    /\ booked_services = {}
    /\ ctx = NoContext
    /\ tmp_dirs = {}
    /\ chrome_proc = "none"
    /\ WatcherIdle
    /\ gd = [fn |-> "idle"]
    /\ dq = <<>>
    /\ map = EmptyDict
    /\ qlock = "free"
    /\ STOP_EVT = FALSE
    /\ PAUSE_EVT = FALSE
    /\ pc = "start"
    /\ user = NoUser
    /\ booked = "False"
    /\ exc = FALSE
    /\ session = {}
    /\ slots = EmptyDict
    /\ deletedInFlight = "no"
    /\ reply = ""
    /\ cmd_line = ""
    /\ snapshot = NoSnapshot
    /\ att = NoAttempt
    /\ status_file = NoStatus
    /\ events = <<>>

\* main(), l.128-133: queue = UserQueue(loader.load()); a ConfigError ends main
StartUp ==
    /\ pc = "start"
    /\ loaded' = YAMLLoader_load(users_dir)
    /\ IF loaded'.raised = "ConfigError"
       THEN pc' = "exited" /\ UNCHANGED <<dq, map>>
       ELSE /\ pc' = "loop"
            /\ dq' = UserQueue_init(loaded'.configs).dq
            /\ map' = UserQueue_init(loaded'.configs).map
    /\ UNCHANGED <<cwvars, gd, qlock, STOP_EVT, PAUSE_EVT, user, booked, exc, session,
                   slots, deletedInFlight, reply, cmd_line, snapshot, att,
                   status_file, events, users_dir, entry_booked, entry_comment,
                   booked_services, ctx, tmp_dirs, chrome_proc>>

SpecLoad == InitLoad /\ [][StartUp]_vars

\*--------------------------------------------------------------------------
\* The browser profile and the browser process of one with statement:
\* `with prepare(alias, keep_debug)` (src/utils/profile_manager.py) and
\* `with chrome_session(alias)` (src/core/gui_driver.py), which nests it.
\* ctx.cpc: "idle", "body" (inside the with-body), "exiting" (the body is
\* over, normally or with an exception: ctx.raising), "left".
\* chrome_session reaches the context manager under the name prepare_profile
\* (gui_driver.py l.39, l.644), the name Tests.py l.32 binds to
\* profile_manager.prepare; profile_manager itself defines only `prepare`.
\*--------------------------------------------------------------------------
InitSession ==
    /\ ctx = NoContext
    /\ tmp_dirs = {}
    /\ chrome_proc = "none"
    /\ users_dir = [exists |-> FALSE, files |-> EmptyDict]
    /\ loaded = NoLoad
    /\ entry_booked = [k \in StatusKeys |-> <<>>]
    /\ entry_comment = [k \in StatusKeys |-> ""]
    /\ booked_services = {}
    /\ WatcherIdle
    /\ gd = [fn |-> "idle"]
    /\ dq = <<>>
    /\ map = EmptyDict
    /\ qlock = "free"
    /\ STOP_EVT = FALSE
    /\ PAUSE_EVT = FALSE
    /\ pc = "session"
    /\ user = NoUser
    /\ booked = "False"
    /\ exc = FALSE
    /\ session = {}
    /\ slots = EmptyDict
    /\ deletedInFlight = "no"
    /\ reply = ""
    /\ cmd_line = ""
    /\ snapshot = NoSnapshot
    /\ att = NoAttempt
    /\ status_file = NoStatus
    /\ events = <<>>

\* __enter__ of the context manager, up to its yield.  prepare: _template_path()
\* (may raise), rmtree of a directory left behind, copytree (may raise with the
\* copy half made).  chrome_session: prepare, then launch_chrome (may raise,
\* which runs prepare's finally) and sleep.
SessionEnter ==
    /\ ctx.cpc \in {"idle", "left"}
    /\ \E alias \in Aliases,
          how \in {<<"prepare", FALSE>>, <<"prepare", TRUE>>, <<"chrome_session", FALSE>>},
          outcome \in {"ok", "template", "copytree", "launch"} :
          /\ outcome = "launch" => how[1] = "chrome_session"
          /\ ctx' = [cpc |-> IF outcome = "ok" THEN "body" ELSE "left",
                     alias |-> alias, kind |-> how[1], keep_debug |-> how[2],
                     entered |-> outcome = "ok", raising |-> outcome # "ok"]
          /\ tmp_dirs' = IF outcome = "template" THEN tmp_dirs
                         ELSE IF outcome = "launch" THEN tmp_dirs \ {alias}
                         ELSE tmp_dirs \cup {alias}
          /\ chrome_proc' = IF outcome = "ok" /\ how[1] = "chrome_session"
                            THEN "running" ELSE "none"
    /\ UNCHANGED <<cwvars, gd, schedvars, slots, att, status_file, events, users_dir,
                   loaded, entry_booked, entry_comment, booked_services>>

\* the with-body runs to its end or raises
SessionBody ==
    /\ ctx.cpc = "body"
    /\ \E raising \in BOOLEAN :
          ctx' = [ctx EXCEPT !.cpc = "exiting", !.raising = raising]
    /\ UNCHANGED <<cwvars, gd, schedvars, slots, att, status_file, events, users_dir,
                   loaded, entry_booked, entry_comment, booked_services,
                   tmp_dirs, chrome_proc>>

\* An exit without try/finally: the code after the yield runs only when the
\* body came to its end.
SessionExit_on_success ==
    /\ ctx.cpc = "exiting"
    /\ ctx' = [ctx EXCEPT !.cpc = "left"]
    /\ IF ctx.raising
       THEN UNCHANGED <<chrome_proc, tmp_dirs>>
       ELSE /\ IF ctx.kind = "chrome_session"
               THEN chrome_proc' \in {"terminated", "killed"}
               ELSE chrome_proc' = chrome_proc
            /\ tmp_dirs' = IF ctx.keep_debug THEN tmp_dirs ELSE tmp_dirs \ {ctx.alias}
    /\ UNCHANGED <<cwvars, gd, schedvars, slots, att, status_file, events, users_dir,
                   loaded, entry_booked, entry_comment, booked_services>>

\* __exit__: the finally blocks.  chrome_session: proc.terminate(), proc.wait(5),
\* proc.kill() on TimeoutExpired; prepare: rmtree unless keep_debug.
SessionExit ==
    /\ ctx.cpc = "exiting"
    /\ ctx' = [ctx EXCEPT !.cpc = "left"]
    /\ IF ctx.kind = "chrome_session"
       THEN chrome_proc' \in {"terminated", "killed"}
       ELSE chrome_proc' = chrome_proc
    /\ tmp_dirs' = IF ctx.keep_debug THEN tmp_dirs ELSE tmp_dirs \ {ctx.alias}
    /\ UNCHANGED <<cwvars, gd, schedvars, slots, att, status_file, events, users_dir,
                   loaded, entry_booked, entry_comment, booked_services>>

SpecSession == InitSession /\ [][SessionEnter \/ SessionBody \/ SessionExit]_vars

\*--------------------------------------------------------------------------
\* The parsing and perception helpers (src/core/slot_finder.py,
\* src/core/gui_driver.py).  A Python string is the sequence of its
\* characters, so that replace, the regular expressions, isdigit, int and
\* SequenceMatcher work on what they work on in the code.  The Cyrillic
\* capital Ze is written "Z" (replace treats both alike); no token of the
\* model carries white space, so strip() is left out.
\*--------------------------------------------------------------------------
\* str.isdigit
isdigit(t) ==
    /\ t # <<>>
    /\ \A i \in 1..Len(t) :
          t[i] \in {"0", "1", "2", "3", "4", "5", "6", "7", "8", "9"}

\* int(tok) for a token of digits
RECURSIVE int(_)
int(t) ==
    IF t = <<>> THEN 0
    ELSE int(SubSeq(t, 1, Len(t) - 1)) * 10
         + (CHOOSE v \in 0..9 :
               <<"0", "1", "2", "3", "4", "5", "6", "7", "8", "9">>[v + 1]
                   = t[Len(t)])

\* re: the characters of t match the pattern, "d" standing for \d
Matches(t, pattern) ==
    /\ Len(t) = Len(pattern)
    /\ \A i \in 1..Len(t) :
          IF pattern[i] = "d" THEN isdigit(<<t[i]>>) ELSE t[i] = pattern[i]

\* SlotFinder.normalize_date_token
normalize_date_token(tok) ==
    LET t == [i \in 1..Len(tok) |-> IF tok[i] \in {"Z", "z"} THEN "3" ELSE tok[i]]
    IN IF Matches(t, <<"0", ".", "d", "d", ".", "d", "d", "d", "d">>)
       THEN <<"3", "0">> \o SubSeq(t, 2, Len(t))
       ELSE t

\* SlotFinder.parse_date_slots, l.515-533: the loop from index i (1-based)
RECURSIVE parse_from(_, _)
parse_from(tokens, i) ==
    LET n == Len(tokens)
        date_re == <<"d", "d", ".", "d", "d", ".", "d", "d", "d", "d">>
    IN IF i > n THEN <<>>
       ELSE IF /\ i + 2 <= n
               /\ Matches(tokens[i], date_re)
               /\ tokens[i + 1] = <<"-">>
               /\ Matches(tokens[i + 2], date_re)
       THEN LET digits == {j \in (i + 3)..n : isdigit(tokens[j])}
            IN IF digits = {} THEN parse_from(tokens, i + 1)
               ELSE LET j == CHOOSE k \in digits : \A m \in digits : k <= m
                    IN <<<<tokens[i], tokens[i + 2], int(tokens[j])>>>>
                          \o parse_from(tokens, j + 1)
       ELSE parse_from(tokens, i + 1)

\* SlotFinder.parse_date_slots (normalize_tokens first, l.508)
parse_date_slots(tokens) ==
    parse_from([i \in 1..Len(tokens) |-> normalize_date_token(tokens[i])], 1)

MaxRuns == 2

\* The tokens of one week line of the month view: a date range of June 2025
\* with the days as OCR wrote them, then words, then the count of open slots.
LineTokens(l) ==
    LET DateToken(day) == day \o <<".", "0", "6", ".", "2", "0", "2", "5">>
    IN <<DateToken(l.start), <<"-">>, DateToken(l.end)>> \o l.words \o l.count

\* extract_slots_info, l.577: the OCR tokens handed to parse_date_slots, for
\* pages of up to MaxRuns week lines; the count may be missing from a line.
ParseCalls ==
    LET WeekLines == [start : {<<"0", "2">>, <<"0", "Z">>, <<"0">>},
                      end   : {<<"0", "8">>, <<"Z", "0">>},
                      words : {<<>>, <<<<"s", "l", "o", "t", "s">>>>},
                      count : {<<>>, <<<<"1", "6">>>>, <<<<"5">>>>}]
        PageTokens(ls) ==
            LET flat[k \in 0..Len(ls)] ==
                    IF k = 0 THEN <<>> ELSE flat[k - 1] \o LineTokens(ls[k])
            IN flat[Len(ls)]
    IN {[fn |-> "parse_date_slots", lines |-> ls, tokens |-> PageTokens(ls),
         ret |-> <<>>] :
           ls \in UNION {[1..n -> WeekLines] : n \in 1..MaxRuns}}

\* SequenceMatcher(None, a, b): the total size of the matching blocks, found
\* as difflib finds them: the longest common block (the earliest in a, then
\* the earliest in b), then the same to its left and to its right.
RECURSIVE matches(_, _)
matches(a, b) ==
    LET blocks == {x \in (1..Len(a)) \X (1..Len(b)) \X (1..Len(a)) :
                     /\ x[1] + x[3] - 1 <= Len(a)
                     /\ x[2] + x[3] - 1 <= Len(b)
                     /\ SubSeq(a, x[1], x[1] + x[3] - 1)
                           = SubSeq(b, x[2], x[2] + x[3] - 1)}
    IN IF blocks = {} THEN 0
       ELSE LET m == CHOOSE x \in blocks : \A y \in blocks :
                        \/ x[3] > y[3]
                        \/ x[3] = y[3] /\ x[1] < y[1]
                        \/ x[3] = y[3] /\ x[1] = y[1] /\ x[2] <= y[2]
            IN m[3] + matches(SubSeq(a, 1, m[1] - 1), SubSeq(b, 1, m[2] - 1))
                    + matches(SubSeq(a, m[1] + m[3], Len(a)),
                              SubSeq(b, m[2] + m[3], Len(b)))

\* arrays_fuzzy_equal with threshold = 0.7; ratio() is 2 * matches / (the
\* two lengths together).  The result is "True", "False" or the exception.
arrays_fuzzy_equal(window, query_words) ==
    IF Len(window) # Len(query_words) THEN "False"
    ELSE LET count_equal ==
                 Cardinality({i \in 1..Len(window) :
                    LET w == window[i]
                        q == query_words[i]
                    IN \/ w = <<>> /\ q = <<>>
                       \/ /\ w # <<>> /\ q # <<>>
                          /\ 2 * matches(w, q) * 10 >= 7 * (Len(w) + Len(q))})
         IN IF Len(window) = 0 THEN "ZeroDivisionError"
            ELSE IF count_equal * 10 >= 7 * Len(window) THEN "True"
            ELSE "False"

MaxWindow == 4

ArraysFuzzyEqual ==
    /\ gd.fn = "arrays_fuzzy_equal"
    /\ gd.ret = <<>>
    /\ gd' = [gd EXCEPT !.ret = <<arrays_fuzzy_equal(gd.window, gd.query_words)>>]
    /\ UNCHANGED <<cwvars, iovars, schedvars, slots, att, status_file, events>>

ParseDateSlots ==
    /\ gd.fn = "parse_date_slots"
    /\ gd.ret = <<>>
    /\ gd' = [gd EXCEPT !.ret = <<parse_date_slots(gd.tokens)>>]
    /\ UNCHANGED <<cwvars, iovars, schedvars, slots, att, status_file, events>>

\* arrays_fuzzy_equal_as_one_str with threshold = 0.7: the words of each
\* side joined, then one ratio (1.0 for two empty strings).
arrays_fuzzy_equal_as_one_str(window, query_words) ==
    LET join(ws) == LET f[k \in 0..Len(ws)] ==
                            IF k = 0 THEN <<>> ELSE f[k - 1] \o ws[k]
                    IN f[Len(ws)]
        a == join(window)
        b == join(query_words)
    IN IF Len(window) # Len(query_words) THEN "False"
       ELSE IF 2 * matches(a, b) * 10 >= 7 * (Len(a) + Len(b)) THEN "True"
       ELSE "False"

\* replace_similar_chars: the Latin letters that look like Cyrillic ones
\* become those; the Cyrillic letter is written as the Latin capital.  The
\* words it is given are in lower case (l.803, l.812, l.892, l.907).
replace_similar_chars(word) ==
    [i \in 1..Len(word) |->
        CASE word[i] = "e" -> "E" [] word[i] = "i" -> "I"
          [] word[i] = "a" -> "A" [] word[i] = "o" -> "O"
          [] word[i] = "c" -> "C" [] word[i] = "p" -> "P"
          [] word[i] = "x" -> "X" [] OTHER -> word[i]]

MaxCount == 2

MaxBoxes == 2

\* find_text, l.806-847, and find_text_any, l.893-955: one round of the
\* loop.  texts is what OCR reads from the capture; the first window that
\* the comparison accepts (queries in order, then boxes in order) gives the
\* location, which find_text computes from scope[0] and scope[1] (scope is
\* the empty tuple when the caller passes None).
FindAttempt ==
    /\ gd.fn \in {"find_text", "find_text_any"}
    /\ gd.ret = <<>>
    /\ gd.attempts < gd.count
    /\ \E texts \in UNION {[1..n -> {<<>>, <<"s", "l", "o", "t">>,
                                     <<"s", "1", "o", "t">>,
                                     <<"f", "r", "e", "e">>}] :
                              n \in 0..MaxBoxes} :
          LET norm(ws) == [k \in 1..Len(ws) |-> replace_similar_chars(ws[k])]
              window(h) == norm(SubSeq(texts, h[2],
                                       h[2] + Len(gd.queries[h[1]]) - 1))
              equal(h) == IF gd.fn = "find_text"
                          THEN arrays_fuzzy_equal_as_one_str(
                                   window(h), norm(gd.queries[h[1]]))
                          ELSE arrays_fuzzy_equal(
                                   window(h), norm(gd.queries[h[1]]))
              hits == {h \in (1..Len(gd.queries)) \X (1..(Len(texts) + 1)) :
                         /\ h[2] + Len(gd.queries[h[1]]) - 1 <= Len(texts)
                         /\ equal(h) # "False"}
              first == CHOOSE h \in hits : \A g \in hits :
                          h[1] < g[1] \/ (h[1] = g[1] /\ h[2] <= g[2])
          IN gd' = IF hits = {}
                   THEN [gd EXCEPT !.attempts = @ + 1, !.pauses = @ + 1]
                   ELSE [gd EXCEPT
                           !.attempts = @ + 1,
                           !.ret = <<IF equal(first) # "True"
                                     THEN [kind |-> equal(first)]
                                     ELSE IF gd.fn = "find_text"
                                             /\ gd.scope = <<>>
                                     THEN [kind |-> "TypeError"]
                                     ELSE [kind   |-> "location",
                                           query  |-> first[1],
                                           box    |-> first[2],
                                           window |-> window(first)]>>]
    /\ UNCHANGED <<cwvars, iovars, schedvars, slots, att, status_file, events>>

\* A search that raises once its attempts are used up.
FindExhausted_raising ==
    /\ gd.fn \in {"find_text", "find_text_any"}
    /\ gd.ret = <<>>
    /\ gd.attempts >= gd.count
    /\ gd' = [gd EXCEPT !.ret = <<[kind |-> "TimeoutError"]>>]
    /\ UNCHANGED <<cwvars, iovars, schedvars, slots, att, status_file, events>>

\* find_text, l.849 (return None), and find_text_any, l.958 (return False)
FindExhausted ==
    /\ gd.fn \in {"find_text", "find_text_any"}
    /\ gd.ret = <<>>
    /\ gd.attempts >= gd.count
    /\ gd' = [gd EXCEPT !.ret = <<[kind |-> IF gd.fn = "find_text"
                                            THEN "None" ELSE "False"]>>]
    /\ UNCHANGED <<cwvars, iovars, schedvars, slots, att, status_file, events>>

\* detect_image_from_frame, l.239-261: weight[t] is the best match score of
\* template t on the capture, in percent (TM_CCOEFF_NORMED lies in -1..1);
\* max_weight is never updated and the return statement stands inside the
\* loop, so the function returns during the first round.
detect_image_from_frame(image_names, weight) ==
    IF image_names = <<>> THEN None
    ELSE IF weight[image_names[1]] > -10000 THEN image_names[1]
    ELSE ""

\* SlotFinder.select_type_show_slots_month
SelectTypeShowSlotsMonth ==
    /\ gd.fn = "select_type_show_slots_month"
    /\ gd.ret = <<>>
    /\ LET detected == detect_image_from_frame(
                           <<"visit_check_day.png", "visit_check_week.png",
                             "visit_check_month.png">>, gd.weight)
       IN gd' = [gd EXCEPT
                   !.clicks = <<<<20, 480>>>>
                                \o (IF "visit_check_month.png" # detected
                                    THEN <<<<1280, 480>>>> ELSE <<>>),
                   !.ret = <<None>>]
    /\ UNCHANGED <<cwvars, iovars, schedvars, slots, att, status_file, events>>

\* The calls: a page of week lines to parse, two word windows to compare
\* (OCR words may be empty; "s1ot" is "slot" misread), or a text to find on
\* the screen (the callers' queries are non-empty texts, with Cyrillic "o"
\* and "e"), or a calendar whose view toggle is to be set to the month view.
InitGd ==
    /\ LET ocr_words   == {<<>>, <<"s", "l", "o", "t">>, <<"s", "1", "o", "t">>,
                           <<"f", "r", "e", "e">>}
           query_words == {<<>>, <<"s", "l", "o", "t">>}
           Windows(W)  == UNION {[1..n -> W] : n \in 0..MaxWindow}
           slot        == <<<<"s", "l", "O", "t">>>>
           slot_free   == <<<<"s", "l", "O", "t">>, <<"f", "r", "E", "E">>>>
       IN gd \in ParseCalls
                 \cup {[fn |-> "arrays_fuzzy_equal", window |-> w,
                        query_words |-> q, ret |-> <<>>] :
                          w \in Windows(ocr_words), q \in Windows(query_words)}
                 \cup {[fn |-> f[1], queries |-> f[2], count |-> c,
                        scope |-> sc, attempts |-> 0, pauses |-> 0,
                        ret |-> <<>>] :
                          f \in {<<"find_text", <<slot>>>>,
                                 <<"find_text", <<slot_free>>>>,
                                 <<"find_text_any", <<slot, slot_free>>>>,
                                 <<"find_text_any", <<slot_free>>>>},
                          c \in 0..MaxCount,
                          sc \in {<<>>, <<170, 100>>}}
                 \cup {[fn |-> "select_type_show_slots_month", weight |-> w,
                        clicks |-> <<>>, ret |-> <<>>] :
                          w \in [{"visit_check_day.png", "visit_check_week.png",
                                  "visit_check_month.png"} -> {10, 50, 90}]}
    /\ dq = <<>>
    /\ map = EmptyDict
    /\ qlock = "free"
    /\ STOP_EVT = FALSE
    /\ PAUSE_EVT = FALSE
    /\ pc = "loop"
    /\ user = NoUser
    /\ booked = "False"
    /\ exc = FALSE
    /\ session = {}
    /\ deletedInFlight = "no"
    /\ reply = ""
    /\ cmd_line = ""
    /\ snapshot = NoSnapshot
    /\ slots = EmptyDict
    /\ att = NoAttempt
    /\ status_file = NoStatus
    /\ events = <<>>
    /\ cw_queue = <<>>
    /\ cw_thread = "running"
    /\ occurred = <<>>
    /\ delivered = <<>>
    /\ IOIdle

SpecGd ==
    InitGd /\ [][ParseDateSlots \/ ArraysFuzzyEqual \/ FindAttempt
                    \/ FindExhausted \/ SelectTypeShowSlotsMonth]_vars

\*--------------------------------------------------------------------------
\* Claims
\*--------------------------------------------------------------------------

\* the scheduler finishes handling the outcome of a failed attempt
FailureHandled == pc \in {"outcome", "requeue"} /\ pc' = "loop" /\ booked # "True"

\* C1: when an attempt ends without a booking and no hot-reload delete of the
\* alias happened during it, the identity is at the tail of the queue once the
\* scheduler has handled the outcome.
C1_RequeuedAtTail ==
    [][(FailureHandled /\ deletedInFlight' = "no")
          => (dq' # <<>> /\ dq'[Len(dq')] = user)]_vars

\* registry matches first, the others after, both in their queue order
StablePartition(d, s) ==
    SelectSeq(d, LAMBDA u : FreeSlotRegistry_has_match(s, u))
        \o SelectSeq(d, LAMBDA u : ~FreeSlotRegistry_has_match(s, u))

\* C2: the prioritization pass moves every identity with a registry match ahead
\* of every identity without one and keeps the relative order inside both
\* groups ([A,B,C,D] with matches for B and D becomes [B,D,A,C]).
C2_StableReorder ==
    [][(pc = "loop" /\ pc' = "pop") => dq' = StablePartition(dq, slots)]_vars

NoDuplicateAlias ==
    \A i, j \in 1..Len(dq) : dq[i].alias = dq[j].alias => i = j

\* a step that runs queue.append(cfg): the watcher's CREATED branch or the
\* scheduler's requeue
AppendStep(cfg) == WatcherCreatedCfg(cfg) \/ (Requeue /\ user = cfg)

\* C3: no alias occurs more than once in the queue, and append of an identity
\* whose alias is already in the queue leaves the queue unchanged.
C3_UniqueAliases ==
    /\ []NoDuplicateAlias
    /\ [][\A cfg \in Users :
             (AppendStep(cfg) /\ cfg.alias \in AliasesOf(dq)) => dq' = dq]_vars

\* C3 witness: the in-flight alias was deleted and created again, and the
\* scheduler has then run append(user) on the alias that is in the queue.
C3_Witness ==
    /\ pc = "loop" /\ user # NoUser /\ booked = "False"
    /\ deletedInFlight = "readded"
    /\ user.alias \in AliasesOf(dq)
    /\ Len(dq) >= 2

\* C4: an identity whose alias hot-reload removed while its attempt was in
\* flight is not in the queue after the scheduler has handled the failure.
C4_DeletedStaysOut ==
    [][(FailureHandled /\ deletedInFlight' = "deleted")
          => user.alias \notin AliasesOf(dq')]_vars

\* C5: no exception raised while an identity is processed terminates the
\* scheduler loop.
C5_LoopSurvives == pc # "crashed"

\* C6: an identity with no pending combination is skipped: no browser session
\* is opened and no attempt is run for it.
C6_ResolvedSkipped ==
    (pc \in {"work", "teardown"} \/ session # {}) => has_pending_services(user)

\* C7: once a slot is clicked, confirmed, acknowledged and the success
\* dialog dismissed, the attempt returns booked = true with the booking
\* persisted in the identity's service status.
C7_BookedAndPersisted ==
    (att.cpc = "done" /\ att.dismissed) =>
        /\ att.ret = "True"
        /\ \E k \in StatusKeys : status_file[k] = "booked"

\* C8: after a successful booking the date token added for the descended week
\* is no longer in the registry.
C8_TokenRemoved ==
    (att.cpc = "done" /\ att.dismissed) =>
        LET t == Targets(att.cuser)[att.ti]
        IN ~ (/\ att.cuser.country \in DOMAIN slots
              /\ t.cons \in DOMAIN slots[att.cuser.country]
              /\ t.srv \in DOMAIN slots[att.cuser.country][t.cons]
              /\ SeqContains(slots[att.cuser.country][t.cons][t.srv],
                             <<"str", att.week>>))

\* C9: every slot that is clicked and confirmed has a date inside the targeted
\* week and at or after the identity's earliest-allowed date.
C9_SlotAtOrAfterFloor ==
    (att.cpc # "idle" /\ att.confirmed) =>
        LET c == att.clicked[1]
        IN /\ c.week <= c.day /\ c.day <= c.week + 6
           /\ c.day >= earliest_allowed(att.cuser, att.today)

\* C10: a week triple is recorded in the registry and descended into exactly
\* when open_count > 0 and week_start <= earliest_allowed, for every way the
\* floor can be configured.
C10_GateMatchesFloor ==
    [][(att.cpc = "week_gate" /\ att.wk <= Len(att.view)) =>
        LET tr == att.view[att.wk]
            t  == Targets(att.cuser)[att.ti]
            recorded ==
                /\ att.cuser.country \in DOMAIN slots'
                /\ t.cons \in DOMAIN slots'[att.cuser.country]
                /\ t.srv \in DOMAIN slots'[att.cuser.country][t.cons]
                /\ SeqContains(slots'[att.cuser.country][t.cons][t.srv], tr[1])
        IN (recorded /\ att'.cpc = "week")
             <=> (tr[3] > 0
                  /\ tr[1][2] <= earliest_allowed(att.cuser, att.today))]_vars

\* C11: a marker found in the band of the k-th weekday is reported by
\* on_slot_found and then on_slot_booked, both carrying week_start + k.
C11_HooksCarrySlotDate ==
    /\ att.cpc = "confirm" =>
          events[Len(events)] =
              [hook |-> "slot_found", date |-> <<att.week + att.band>>]
    /\ (att.cpc = "done" /\ att.dismissed) =>
          \E i, j \in 1..Len(events) :
             /\ i < j
             /\ events[i] = [hook |-> "slot_found",
                             date |-> <<att.clicked[1].day>>]
             /\ events[j] = [hook |-> "slot_obtained",
                             date |-> <<att.clicked[1].day>>]

\* C12: the steps of an attempt run in a fixed order and a step that fails
\* ends the attempt: no step is executed after one that returned failure.
C12_FailedStepEndsAttempt ==
    att.cpc # "idle" =>
        \A i, j \in 1..Len(att.steps) : i < j => att.steps[i].ok

\* C13: work returns true if and only if a slot was booked during the
\* attempt, whatever was examined after the booking.
C13_TrueIffBooked ==
    att.cpc = "done" => (att.ret = "True" <=> att.dismissed)

\* The registry holds the date token of the week the attempt descended into.
WeekTokenRecorded ==
    LET t == Targets(att.cuser)[att.ti]
    IN /\ att.cuser.country \in DOMAIN slots
       /\ t.cons \in DOMAIN slots[att.cuser.country]
       /\ t.srv \in DOMAIN slots[att.cuser.country][t.cons]
       /\ SeqContains(slots[att.cuser.country][t.cons][t.srv],
                      <<"str", att.week>>)

\* The attempt clicked a slot and then failed to confirm or acknowledge it.
ConfirmFailed ==
    /\ att.cpc \in {"month_ret", "months_ret", "done"}
    /\ att.clicked # NoClick
    /\ ~att.dismissed

\* C14: when the confirm button, the robot probe or the acknowledgment is not
\* found after the click, the attempt ends without a booking: nothing is
\* persisted, on_slot_booked is not emitted and the week's registry entry
\* is still present.
C14_ConfirmFailureKeepsSlot ==
    (att.cpc # "idle" /\ ConfirmFailed) =>
        /\ att.ret \in {"running", "None", "False"}
        /\ att.is_found = "None"
        /\ status_file = NoStatus
        /\ \A i \in 1..Len(events) : events[i].hook # "slot_obtained"
        /\ WeekTokenRecorded

C14_Witness ==
    /\ att.cpc = "done" /\ ConfirmFailed
    /\ att.ret = "None"
    /\ att.confirmed

\* C15: with STOP set during an attempt, the attempt runs to its end, its
\* outcome is applied to the queue (removal on success, requeue on failure)
\* and no further identity is popped before the scheduler shuts down.
C15_StopAfterInFlight ==
    [][(STOP_EVT /\ (InFlight \/ pc = "loop")) =>
          /\ user' = user /\ pc' # "pop"
          /\ InFlight => pc' \notin {"exited", "closing"}
          /\ (pc = "outcome" /\ booked = "True" /\ pc' = "loop")
                => user.alias \notin AliasesOf(dq')
          /\ (FailureHandled /\ deletedInFlight' = "no")
                => (dq' # <<>> /\ dq'[Len(dq')] = user)]_vars

\* C16: once STOP is set the scheduler loop eventually exits and closes the
\* watcher and the control server, whatever PAUSE and the hot-reload thread do.
C16_StopLeadsToShutdown == STOP_EVT ~> (pc = "exited")

\* C17: an iteration that begins with PAUSE set neither reorders the queue
\* nor pops an identity nor opens a session; the scheduler goes on to the
\* prioritization block and the pop only from an iteration that sees PAUSE
\* cleared.
C17_PausedIterationIdle ==
    [][(pc = "loop" /\ PAUSE_EVT) =>
          /\ pc' \in {"loop", "exited", "closing"}
          /\ user' = user
          /\ session' = session]_vars

C17_Witness ==
    /\ pc = "loop" /\ PAUSE_EVT /\ ~STOP_EVT
    /\ reply = "PAUSED"
    /\ qlock = "free"
    /\ Len(dq) >= 2
    /\ Prioritized(dq, slots) # dq

\* C18: each control command changes only its own flag and is answered with
\* its status token; any other command changes no flag and is answered
\* UNKNOWN; STOP is never cleared once it is set.
C18_CommandEffects ==
    [][/\ STOP_EVT => STOP_EVT'
       /\ <<STOP_EVT, PAUSE_EVT, reply, cmd_line, snapshot>>'
             # <<STOP_EVT, PAUSE_EVT, reply, cmd_line, snapshot>> =>
            /\ cmd_line' = "pause" =>
                  PAUSE_EVT' /\ STOP_EVT' = STOP_EVT /\ reply' = "PAUSED"
            /\ cmd_line' = "resume" =>
                  ~PAUSE_EVT' /\ STOP_EVT' = STOP_EVT /\ reply' = "RESUMED"
            /\ cmd_line' = "stop" =>
                  STOP_EVT' /\ PAUSE_EVT' = PAUSE_EVT /\ reply' = "STOPPING"
            /\ cmd_line' \notin {"pause", "resume", "stop"} =>
                  /\ STOP_EVT' = STOP_EVT /\ PAUSE_EVT' = PAUSE_EVT
                  /\ reply' = "UNKNOWN"]_vars

C18_Witness ==
    /\ STOP_EVT /\ ~PAUSE_EVT
    /\ cmd_line = "resume" /\ reply = "RESUMED"

\* The registry holds at least one date under (u.country, consulate, service)
\* for a consulate and a service of the identity.
HoldsDate(s, u) ==
    \E i \in 1..Len(u.consulates) : \E j \in 1..Len(u.services) :
        /\ u.country \in DOMAIN s
        /\ u.consulates[i] \in DOMAIN s[u.country]
        /\ u.services[j] \in DOMAIN s[u.country][u.consulates[i]]
        /\ Len(s[u.country][u.consulates[i]][u.services[j]]) > 0

\* C19: after any sequence of add and remove calls, has_match(identity) is
\* true exactly when the registry holds a date for one of the identity's
\* (consulate, service) pairs in its country.
C19_HasMatchIffDate ==
    \A u \in RegUsers : FreeSlotRegistry_has_match(slots, u) <=> HoldsDate(slots, u)

\* a date was added for (PL, K1, S1) and the last one removed again, while
\* another consulate of the country still holds a date
C19_Witness ==
    /\ "PL" \in DOMAIN slots
    /\ "K1" \in DOMAIN slots["PL"]
    /\ DOMAIN slots["PL"]["K1"] = {}
    /\ ~FreeSlotRegistry_has_match(slots, UserA1)
    /\ FreeSlotRegistry_has_match(slots, UserB)

\* C20: what a snapshot returned by get_all holds is not changed by add and
\* remove calls made after it was taken.
C20_SnapshotIsCopy ==
    snapshot.valid =>
        SnapshotContents(snapshot.refs, slots) = snapshot.taken

\* the last entry of the delivery history
LastDelivered(h) == h[Len(h)]

\* a step in which the callback is invoked with one event
DeliveryStep == Len(delivered') = Len(delivered) + 1

\* C21: once a DELETED event for a config file has been handled, the queue
\* holds no identity that was created from that file, at any position.
C21_DeletedFileLeavesQueue ==
    [][(DeliveryStep /\ LastDelivered(delivered').evt.kind = "DELETED")
          => \A i \in 1..Len(dq') :
                 dq'[i].source_file # LastDelivered(delivered').evt.path.stem]_vars

\* C22: update(identity) for an alias that is in the queue puts the identity
\* at the position the alias had; every other entry, the order and the length
\* of the queue stay as they were.
C22_UpdateInPlace ==
    [][(/\ DeliveryStep
        /\ LastDelivered(delivered').evt.kind = "MODIFIED"
        /\ LastDelivered(delivered').cfg # NoUser
        /\ LastDelivered(delivered').cfg.alias \in AliasesOf(dq))
          => LET cfg == LastDelivered(delivered').cfg
             IN  /\ Len(dq') = Len(dq)
                 /\ \A i \in 1..Len(dq) :
                       dq'[i] = IF dq[i].alias = cfg.alias THEN cfg ELSE dq[i]
                 /\ map' = DictPut(map, cfg.alias, cfg)]_vars

\* a MODIFIED event for A.yaml has replaced the head of a two-entry queue
C22_Witness ==
    /\ delivered # <<>>
    /\ LastDelivered(delivered).evt = ChangeEvent(YamlA, "MODIFIED")
    /\ LastDelivered(delivered).cfg = UserA2
    /\ Len(delivered) = 1
    /\ dq = <<UserA2, UserBVisa>>

\* the lines logged for an event whose file gave no identity: ConfigError
\* (caught in the callback) or any other exception (caught in run)
InvalidLogs == {"Invalid YAML", "Callback raised"}

\* C24: a CREATED or MODIFIED event whose file cannot be parsed into an
\* identity leaves the queue as it was and leaves the hot-reload thread
\* running, so that later events are still handled.
C24_InvalidFileSkipped ==
    [][(/\ DeliveryStep
        /\ LastDelivered(delivered').evt.kind \in {"CREATED", "MODIFIED"}
        /\ LastDelivered(delivered').log \in InvalidLogs)
          => /\ dq' = dq
             /\ map' = map
             /\ qlock' = qlock
             /\ cw_thread' = "running"]_vars

\* A.yaml was modified into a YAML list (AttributeError in _parse_file), then
\* b-visa.YAML was created and its identity was appended behind A
C24_Witness ==
    /\ Len(delivered) = 2
    /\ delivered[1].evt = ChangeEvent(YamlA, "MODIFIED")
    /\ delivered[1].log = "Callback raised"
    /\ delivered[2].evt = ChangeEvent(YamlBVisa, "CREATED")
    /\ delivered[2].log = "YAML created"
    /\ dq = <<UserA1, UserBVisa>>
    /\ cw_thread = "running"

\* C25: the callback is invoked once per event on a *.yaml file, one event at
\* a time, in the order the events occurred: the events delivered so far are
\* the first events that occurred, the events waiting are the ones that
\* follow, and no event is delivered while the callback is still blocked.
C25_DeliveredInOrder ==
    /\ [](/\ Len(delivered) <= Len(occurred)
          /\ \A i \in 1..Len(delivered) : delivered[i].evt = occurred[i]
          /\ cw_queue = SubSeq(occurred, Len(delivered) + 1, Len(occurred)))
    /\ [][/\ Len(delivered') \in {Len(delivered), Len(delivered) + 1}
          /\ cw_thread = "blocked" => delivered' = delivered]_vars

\* A.yaml was created, modified and deleted; the callback saw the three
\* events in that order
C25_Witness ==
    /\ Len(delivered) = 3
    /\ delivered[1].evt = ChangeEvent(YamlA, "CREATED")
    /\ delivered[2].evt = ChangeEvent(YamlA, "MODIFIED")
    /\ delivered[3].evt = ChangeEvent(YamlA, "DELETED")

\* C23: once the recorded status of a (country, consulate, service) is booked
\* or unavailable, no record_service_status call changes it: the status only
\* ever goes from pending to booked or from pending to unavailable.
C23_ResolvedStatusFinal ==
    [][\A k \in StatusKeys :
          status_file[k] \in {"booked", "unavailable"}
              => status_file'[k] = status_file[k]]_vars

\* the directory holds a *.yaml file that lacks required fields
HasFileLackingFields(dir) ==
    \E i \in 1..Len(LoadPaths) :
        /\ LoadPaths[i].suffix = ".yaml"
        /\ dir.files[i].kind = "mapping"
        /\ dir.files[i].missing # {}

\* the directory holds a *.yaml file from which an identity can be built
HasValidFile(dir) ==
    \E i \in 1..Len(LoadPaths) :
        /\ LoadPaths[i].suffix = ".yaml"
        /\ dir.files[i].kind = "mapping"
        /\ dir.files[i].missing = {}

C27_ProfileAndBrowserCleanedUp ==
    /\ ctx.cpc \in {"body", "exiting"} =>
           /\ ctx.alias \in tmp_dirs
           /\ ctx.kind = "chrome_session" => chrome_proc = "running"
    /\ (ctx.cpc = "left" /\ ctx.entered) =>
           /\ ~ctx.keep_debug => ctx.alias \notin tmp_dirs
           /\ ctx.kind = "chrome_session" => chrome_proc \in {"terminated", "killed"}
    /\ ctx.cpc \in {"idle", "left"} => chrome_proc # "running"

\* a chrome_session whose body raised has been left: the browser had to be
\* killed and the profile is removed
C27_Witness ==
    /\ ctx.cpc = "left"
    /\ ctx.entered
    /\ ctx.raising
    /\ ctx.kind = "chrome_session"
    /\ chrome_proc = "killed"
    /\ ctx.alias \notin tmp_dirs

\* C28: at most one identity has a browser session and an attempt at a time,
\* and it is the identity the scheduler popped; no session is open when the
\* scheduler is at the head of its loop or pops the next identity; a step of
\* the hot-reload thread or of the control thread (the scheduler stays where
\* it is) leaves the session, the attempt, the audit hooks, the registry and
\* the scheduler's locals alone: it changes the queue and the flags only.
C28_OneActiveIdentity ==
    /\ [](/\ Cardinality(session) <= 1
          /\ session # {} => (pc \in {"work", "teardown"} /\ session = {user.alias})
          /\ pc \in {"loop", "pop", "session", "outcome", "requeue"} => session = {})
    /\ [][pc' = pc => UNCHANGED <<session, att, events, slots, status_file, user,
                                  booked, exc>>]_vars

\* the control thread paused the scheduler and the hot-reload thread removed
\* an identity while the session of B, popped after another identity, is open
C28_Witness ==
    /\ pc = "work"
    /\ session = {"B"}
    /\ user.alias = "B"
    /\ PAUSE_EVT
    /\ cmd_line = "pause"
    /\ "A" \notin DOMAIN map

\* the registry records the date under the key (country, consulate, service)
Recorded(s, k, d) ==
    /\ k[1] \in DOMAIN s
    /\ k[2] \in DOMAIN s[k[1]]
    /\ k[3] \in DOMAIN s[k[1]][k[2]]
    /\ SeqContains(s[k[1]][k[2]][k[3]], d)

\* C29: add of a date that is already recorded under the key leaves the
\* registry as it is, and whatever adds and removes were made, no date list
\* holds a date twice.
C29_AddIdempotent ==
    /\ \A k \in RegKeys : \A d \in RegDates :
          Recorded(slots, k, d)
              => FreeSlotRegistry_add(slots, k[1], k[2], k[3], d) = slots
    /\ \A c \in DOMAIN slots : \A k \in DOMAIN slots[c] : \A v \in DOMAIN slots[c][k] :
          \A i, j \in 1..Len(slots[c][k][v]) :
              i # j => slots[c][k][v][i] # slots[c][k][v][j]

\* two dates were added under PL/K1/S1, one under UA/K1/S1
C29_Witness ==
    /\ Recorded(slots, <<"PL", "K1", "S1">>, <<"str", 1>>)
    /\ Recorded(slots, <<"PL", "K1", "S1">>, <<"str", 8>>)
    /\ Len(slots["PL"]["K1"]["S1"]) = 2
    /\ Recorded(slots, <<"UA", "K1", "S1">>, <<"str", 8>>)

\* C30: remove for an entry that is not recorded - the country, the consulate
\* or the service is unknown, or the date is not in the list - leaves the
\* whole registry as it is (the KeyError or ValueError does not get out).
C30_RemoveMissingIsNoOp ==
    \A k \in RegKeys \cup {<<"PL", "K1", "S2">>} : \A d \in RegRemoveDates :
        ~Recorded(slots, k, d)
            => FreeSlotRegistry_remove(slots, k[1], k[2], k[3], d) = slots

\* the registry holds the single date 08 under PL/K1/S1: country UA,
\* consulate K2, service S2 and date 01 are all unknown to it
C30_Witness ==
    /\ DOMAIN slots = {"PL"}
    /\ DOMAIN slots["PL"] = {"K1"}
    /\ DOMAIN slots["PL"]["K1"] = {"S1"}
    /\ slots["PL"]["K1"]["S1"] = <<<<"str", 8>>>>
    /\ ~Recorded(slots, <<"PL", "K1", "S1">>, <<"date", 1>>)

\* C31: after remove(alias) of a queued alias, append of an identity with that
\* alias succeeds: the identity is placed at the tail and exists(alias) holds.
C31_AppendAfterRemove ==
    [][(/\ DeliveryStep
        /\ delivered # <<>>
        /\ LastDelivered(delivered).evt.kind = "DELETED"
        /\ LastDelivered(delivered').evt.kind = "CREATED"
        /\ LastDelivered(delivered').cfg # NoUser
        /\ LastDelivered(delivered').cfg.alias = LastDelivered(delivered).evt.path.stem)
          => /\ dq' = Append(dq, LastDelivered(delivered').cfg)
             /\ UserQueue_exists([dq |-> dq', map |-> map'],
                                 LastDelivered(delivered').cfg.alias)]_vars

\* A.yaml, first of two queued identities, was deleted and created again: its
\* identity now stands behind B
C31_Witness ==
    /\ Len(delivered) = 2
    /\ delivered[1].evt = ChangeEvent(YamlA, "DELETED")
    /\ delivered[2].evt = ChangeEvent(YamlA, "CREATED")
    /\ dq = <<UserBVisa, UserA2>>
    /\ DOMAIN map = {"A", "B"}

\* C35: update(identity) for an alias that is not in the queue returns with
\* the identity appended at the tail and the queue lock released; no thread
\* stays blocked on the lock.
C35_UpdateOfNewAliasAppends ==
    [][(/\ DeliveryStep
        /\ LastDelivered(delivered').evt.kind = "MODIFIED"
        /\ LastDelivered(delivered').cfg # NoUser
        /\ ~UserQueue_exists(Q, LastDelivered(delivered').cfg.alias))
          => /\ dq' = Append(dq, LastDelivered(delivered').cfg)
             /\ qlock' = "free"
             /\ cw_thread' = "running"]_vars

\* C36: the alias index and the queue sequence hold the same aliases after any
\* sequence of pop_left, append, remove and update calls: exists(alias) is true
\* exactly when an identity with that alias is in the sequence.
C36_IndexMatchesSequence ==
    \A a \in Aliases : UserQueue_exists(Q, a) <=> a \in AliasesOf(dq)


NoErrorReported == \A i \in 1..Len(events) : events[i].hook # "error"

\* C38: when no slot is booked and no error occurs, every month the month
\* loop has on the page (the displayed month, then each month it selects, up
\* to and including November) is scanned for qualifying weeks before the
\* loop returns: the loop test never leaves a selected month unscanned.
C38_SelectedMonthScanned ==
    [][(/\ att.cpc = "month_loop"
        /\ att'.cpc # "month_loop"
        /\ NoErrorReported
        /\ att.month_no <= LastSiteMonth)
          => att'.cpc = "week_gate"]_vars


\* C39: a week descent scans Monday to Saturday in that order, each at most
\* once: when the descent returns not-found after the loop over the days,
\* six days have been scanned and the last band scanned is Saturday's.
C39_DescentScansMondayToSaturday ==
    [][(/\ att.cpc = "day"
        /\ att'.cpc = "week_gate"
        /\ att'.mfound = "False")
          => /\ att.idx = 6
             /\ WEEK_DAYS[att.band + 1] = "sat"]_vars


InCalendarSearch ==
    att.cpc \in {"months", "month_loop", "week_gate", "week", "day", "band",
                 "scan", "confirm", "ack", "record", "month_ret",
                 "months_ret"}

\* C37: the calendar search of an attempt terminates for every sequence of
\* perception results and every starting month: once find_free_slot_months
\* is entered, the attempt eventually leaves the calendar search (with a
\* result or an error).
C37_CalendarSearchTerminates == InCalendarSearch ~> ~InCalendarSearch


\* The triples the week lines of a page stand for: one per line that carries
\* a count, with the dates and the count of that line.
RECURSIVE TriplesOf(_)
TriplesOf(ls) ==
    IF ls = <<>> THEN <<>>
    ELSE (IF Head(ls).count = <<>> THEN <<>>
          ELSE <<<<normalize_date_token(LineTokens(Head(ls))[1]),
                   normalize_date_token(LineTokens(Head(ls))[3]),
                   int(Head(ls).count[1])>>>>)
         \o TriplesOf(Tail(ls))

\* C32: parse_date_slots returns exactly one (start, end, count) triple per
\* run date, '-', date, other tokens, integer, in order, each with the
\* normalized dates and the count of its own run; tokens that form no
\* complete run yield no triple.
C32_OneTriplePerRun ==
    (gd.fn = "parse_date_slots" /\ gd.ret # <<>>)
        => gd.ret[1] = TriplesOf(gd.lines)


\* the similarity of two words reaches the threshold (two empty words are
\* identical, an empty word is unlike a non-empty one)
WordsSimilar(w, q) ==
    \/ w = <<>> /\ q = <<>>
    \/ w # <<>> /\ q # <<>> /\ 2 * matches(w, q) * 10 >= 7 * (Len(w) + Len(q))

\* C33: arrays_fuzzy_equal accepts two windows of the same length when every
\* position has similarity >= 0.7, rejects windows of different lengths, and
\* rejects every window in which some position pairs an empty word with a
\* non-empty one, whatever the other positions and the window length.
C33_FuzzyEqualContract ==
    (gd.fn = "arrays_fuzzy_equal" /\ gd.ret # <<>>)
        => LET w == gd.window
               q == gd.query_words
           IN /\ (Len(w) = Len(q) /\ Len(w) > 0
                    /\ \A i \in 1..Len(w) : WordsSimilar(w[i], q[i]))
                     => gd.ret[1] = "True"
              /\ Len(w) # Len(q) => gd.ret[1] = "False"
              /\ (\E i \in 1..Len(w) :
                     i <= Len(q) /\ (w[i] = <<>>) # (q[i] = <<>>))
                     => gd.ret[1] = "False"


FindCall == gd.fn \in {"find_text", "find_text_any"}

\* the window a search returned the location of is one its comparison accepts
ReturnedWindowAccepted ==
    LET r == gd.ret[1]
        q == [k \in 1..Len(gd.queries[r.query]) |->
                 replace_similar_chars(gd.queries[r.query][k])]
    IN IF gd.fn = "find_text"
       THEN arrays_fuzzy_equal_as_one_str(r.window, q) = "True"
       ELSE arrays_fuzzy_equal(r.window, q) = "True"

BestView(w, t) == \A o \in DOMAIN w : o # t => w[t] > w[o]

\* C40: when the month template is the best-scoring of the three view
\* templates, select_type_show_slots_month does not click the view toggle;
\* it clicks the toggle when the best-scoring template is day or week.
C40_ToggleOnlyWhenNotMonth ==
    (gd.fn = "select_type_show_slots_month" /\ gd.ret # <<>>)
        => /\ BestView(gd.weight, "visit_check_month.png")
                 => ~SeqContains(gd.clicks, <<1280, 480>>)
           /\ (\/ BestView(gd.weight, "visit_check_day.png")
               \/ BestView(gd.weight, "visit_check_week.png"))
                 => SeqContains(gd.clicks, <<1280, 480>>)

====
